---- MODULE Spec2Model ----
(***************************************************************************)
(* Verification model of BreaKmer's structural-variant caller              *)
(* (breakmer/caller/sv_caller.py): ContigCaller, SVEvent, SVBreakpoints.   *)
(*                                                                         *)
(* Python objects are records carrying exactly the attributes their class  *)
(* assigns; reading an attribute that no code assigns raises               *)
(* AttributeError, reading a name that is bound nowhere raises NameError,  *)
(* and a call whose argument count differs from the parameter count raises *)
(* TypeError.  A call's outcome is a record [exc, line, val]: exc = ""     *)
(* for a normal return of val, otherwise the exception raised at `line`.   *)
(***************************************************************************)
EXTENDS Integers, Sequences, FiniteSets, TLC

VARIABLES
    abCall,     \* check_add_br: the arguments of the call under way
    abRet,      \* check_add_br: None, or Some(outcome of the call)
    wrCall,     \* which_rearr: the arguments of the call under way
    wrRet,      \* which_rearr: None, or Some(outcome of the call)
    blatResSorted,  \* format_rearrangement_values: the members sorted by query start
    svBrkpts,   \* the event's SVBreakpoints object (svEvent.brkpts)
    bpIdx,      \* format_rearrangement_values: the loop index i of line 178
    resStrands, \* svEvent.resultValues.strands, filled by the same loop
    clsCall,    \* None, or Some(the classification method called on the event)
    clsRet,     \* None, or Some(outcome of that call)
    caller,     \* the ContigCaller object (None: not constructed)
    ccCall,     \* None, or Some(the method called on it, with its arguments)
    ccRet,      \* None, or Some(outcome of that call)
    fmCall,     \* None, or Some(the SVResult record to format)
    fmRet,      \* None, or Some(the (header, values) pair returned)
    target      \* the TargetManager under construction (None: none)

abVars == <<abCall, abRet>>
wrVars == <<wrCall, wrRet>>
bpVars == <<blatResSorted, svBrkpts, bpIdx, resStrands, clsCall, clsRet>>
ccVars == <<caller, ccCall, ccRet>>
fmVars == <<fmCall, fmRet>>
tmVars == <<target>>
vars == <<abCall, abRet, wrCall, wrRet, blatResSorted, svBrkpts, bpIdx,
          resStrands, clsCall, clsRet, caller, ccCall, ccRet, fmCall, fmRet,
          target>>

(*------------------------- Python values --------------------------------*)
None == <<>>
Some(x) == <<x>>
Val(o) == o[1]

Return(v) == [exc |-> "", line |-> 0, val |-> v]
Raise(e, l, v) == [exc |-> e, line |-> l, val |-> v]
Raised(o) == o.exc # ""

Min(a, b) == IF a <= b THEN a ELSE b
Max(a, b) == IF a >= b THEN a ELSE b
Abs(a) == IF a < 0 THEN -a ELSE a

\* Names bound at the module level of sv_caller.py (lines 4-8 and the five
\* classes); a function body sees these and its own locals.
ModuleNames ==
    {"sys", "os", "math", "pysam", "utils",
     "FilterValues", "SVResult", "SVBreakpoints", "SVEvent", "ContigCaller"}
NameBound(name, locals) == name \in (locals \cup ModuleNames)

\* An object has the attributes its record carries.
HasAttr(obj, attr) == attr \in DOMAIN obj

\* Python 2 round(float(n) / float(d) * 100-style quotient): the nearest
\* integer to n/d, a half rounding away from zero (d > 0).
RoundHalfAway(n, d) ==
    IF n >= 0 THEN (2 * n + d) \div (2 * d)
    ELSE -((2 * (-n) + d) \div (2 * d))

(*------------------------- bounds and constants --------------------------*)
\* Largest contig (query) size of the model.
MaxQuerySize == 200

\* Literals of sv_caller.py.
GapEdgeDist == 15
MinGapLen == 10
MinOverlapPercent == 50
MaxOverlapBases == 15
NmatchTolerance == 10
MaxFlank == 5

(*------------------------- realignment segments -------------------------*)
\* A realignment result as the caller reads it: query range [qstart, qend),
\* reference range, reference name, strand, in-target flag, matched bases.
Seg(qs, qe, ts, te, c, st, it, nm) ==
    [qstart |-> qs, qend |-> qe, tstart |-> ts, tend |-> te, chr |-> c,
     strand |-> st, in_target |-> it, nmatch |-> nm]

\* Query segment as check_add_br reads it.
QSeg(qs, qe, it) == Seg(qs, qe, 0, 0, "1", "+", it, qe - qs)

(*------------------------- ContigCaller.check_add_br --------------------*)
\* line 936: round(float(min(qend, gapEnd) - max(qstart, gapStart))
\*                 / float(qend - qstart) * 100)
overlapPecent(realignResult, gapStart, gapEnd) ==
    RoundHalfAway(100 * (Min(realignResult.qend, gapEnd)
                         - Max(realignResult.qstart, gapStart)),
                  realignResult.qend - realignResult.qstart)

\* lines 938-940
overlapRight(realignResult, gapEnd) ==
    IF realignResult.qend > gapEnd THEN Abs(realignResult.qend - gapEnd) ELSE 0

\* lines 941-943
overlapLeft(realignResult, gapStart) ==
    IF realignResult.qstart < gapStart THEN Abs(realignResult.qstart - gapStart) ELSE 0

\* line 946
maxSegmentOverlap(realignResult, gapStart, gapEnd) ==
    Max(overlapRight(realignResult, gapEnd), overlapLeft(realignResult, gapStart))

check_add_br_relaxed(svEvent, realignResult, gapStart, gapEnd) ==
    LET segOverlap == <<overlapLeft(realignResult, gapStart),
                        overlapRight(realignResult, gapEnd)>>
    IN  Return([add |-> overlapPecent(realignResult, gapStart, gapEnd) >= MinOverlapPercent
                        /\ (maxSegmentOverlap(realignResult, gapStart, gapEnd) <= MaxOverlapBases
                            \/ (realignResult.in_target /\ Val(svEvent).in_target)),
                seg_overlap |-> segOverlap])

\* check_add_br(self, realignResult, gapStart, gapEnd), self.svEvent given as
\* svEvent (None or Some(event)).  The segment overlap is recorded on the
\* segment (line 945) before self.svEvent.in_target is first read (line 950).
check_add_br(svEvent, realignResult, gapStart, gapEnd) ==
    LET segOverlap == <<overlapLeft(realignResult, gapStart),
                        overlapRight(realignResult, gapEnd)>>
    IN  IF svEvent = None
        THEN Raise("AttributeError", 950, [add |-> FALSE, seg_overlap |-> segOverlap])
        ELSE Return([add |-> overlapPecent(realignResult, gapStart, gapEnd) >= MinOverlapPercent
                             /\ (maxSegmentOverlap(realignResult, gapStart, gapEnd) < MaxOverlapBases
                                 \/ (realignResult.in_target /\ Val(svEvent).in_target)),
                     seg_overlap |-> segOverlap])

(*------------------------- check_add_br applied --------------------------*)
\* Query coordinates the calls are drawn from: the contig ends, the 15-base
\* tolerance on either side of them, and the middle of the contig.
AddBrPositions ==
    {0, 1, MaxOverlapBases - 1, MaxOverlapBases, MaxOverlapBases + 1,
     (MaxQuerySize \div 2) - 1, MaxQuerySize \div 2, (MaxQuerySize \div 2) + 1,
     MaxQuerySize - MaxOverlapBases, MaxQuerySize - MaxOverlapBases + 1,
     MaxQuerySize}

AddBrCalls ==
    { [r |-> QSeg(qs, qe, it), gapStart |-> gs, gapEnd |-> ge, evInTarget |-> et] :
        qs \in AddBrPositions, qe \in AddBrPositions, gs \in AddBrPositions,
        ge \in AddBrPositions, it \in BOOLEAN, et \in BOOLEAN }

WellFormedAddBrCall(c) == c.r.qstart < c.r.qend /\ c.gapStart <= c.gapEnd

AddBrStart ==
    /\ abCall \in { c \in AddBrCalls : WellFormedAddBrCall(c) }
    /\ abRet = None

AddBrIdle == abCall = None /\ abRet = None

\* The event so far, as far as check_add_br reads it.
AddBrEvent(c) == Some([in_target |-> c.evInTarget])

CheckAddBr ==
    /\ abRet = None
    /\ abRet' = Some(check_add_br(AddBrEvent(abCall), abCall.r, abCall.gapStart, abCall.gapEnd))
    /\ UNCHANGED abCall
    /\ UNCHANGED <<wrVars, bpVars, ccVars, fmVars, tmVars>>

\* The exact overlap of segment and gap, and the segment's length.
AbOv == Min(abCall.r.qend, abCall.gapEnd) - Max(abCall.r.qstart, abCall.gapStart)
AbLen == abCall.r.qend - abCall.r.qstart
AbLeft == IF abCall.r.qstart < abCall.gapStart THEN abCall.gapStart - abCall.r.qstart ELSE 0
AbRight == IF abCall.r.qend > abCall.gapEnd THEN abCall.r.qend - abCall.gapEnd ELSE 0
AbOverride == abCall.r.in_target /\ abCall.evInTarget

\* C2 as stated: check_add_br returns True iff the exact overlap% >= 50 and
\* (max(overlapLeft, overlapRight) < 15 or both in-target), and records
\* (overlapLeft, overlapRight) on the segment.
C2_Original ==
    abRet # None =>
        /\ ~Raised(Val(abRet))
        /\ Val(abRet).val.add <=>
              (100 * AbOv >= 50 * AbLen /\ ((AbLeft < 15 /\ AbRight < 15) \/ AbOverride))
        /\ Val(abRet).val.seg_overlap = <<AbLeft, AbRight>>

\* C2 amended: check_add_br returns True iff the overlap% ROUNDED to the
\* nearest integer is >= 50, that is iff the exact overlap% >= 49.5, and
\* (max(overlapLeft, overlapRight) < 15 or both in-target); it records
\* (overlapLeft, overlapRight) on the segment.
C2_Amended ==
    abRet # None =>
        /\ ~Raised(Val(abRet))
        /\ Val(abRet).val.add <=>
              (200 * AbOv >= 99 * AbLen /\ ((AbLeft < 15 /\ AbRight < 15) \/ AbOverride))
        /\ Val(abRet).val.seg_overlap = <<AbLeft, AbRight>>

\* A call accepted through the in-target override with an overlap% in [49.5, 50).
C2_Witness ==
    /\ abRet # None
    /\ Val(abRet).val.add
    /\ 200 * AbOv >= 99 * AbLen /\ 100 * AbOv < 50 * AbLen
    /\ AbLeft >= 15

(*------------------------- SVEvent.check_overlap -------------------------*)
check_overlap_one_sided(coord1, coord2) ==
    coord1[1] >= coord2[1] /\ coord1[2] <= coord2[2]

\* lines 659-665: one reference range lies within the other.
check_overlap(coord1, coord2) ==
    IF coord1[1] >= coord2[1] /\ coord1[2] <= coord2[2] THEN TRUE
    ELSE IF coord2[1] >= coord1[1] /\ coord2[2] <= coord1[2] THEN TRUE
    ELSE FALSE

(*------------------------- SVEvent.which_rearr ---------------------------*)
\* The dict of line 668.  A key the code never sets ('indelSize') is None;
\* extQuery is the read-evidence query the call made (None: no query).
rearrValues0 ==
    [discReadCount |-> None, svType |-> "rearrangement", svSubType |-> None,
     hit |-> FALSE, indelSize |-> None, extQuery |-> None]

which_rearr_ge(varReads, tcoords, qcoords, strands, brkpts) ==
    IF ~check_overlap(tcoords[1], tcoords[2])
    THEN IF strands[1] # strands[2]
         THEN [rearrValues0 EXCEPT !.hit = TRUE, !.svSubType = Some("inversion"),
                                   !.discReadCount = Some(varReads.inv),
                                   !.extQuery = Some(<<"check_inv_readcounts", brkpts>>)]
         ELSE LET tgap == brkpts[2] - brkpts[1]
                  qgap == qcoords[2][1] - qcoords[1][2]
              IN  IF tgap < 0
                  THEN [rearrValues0 EXCEPT !.hit = TRUE, !.svSubType = Some("tandem_dup"),
                                            !.discReadCount = Some(varReads.td),
                                            !.extQuery = Some(<<"check_td_readcounts", brkpts>>)]
                  ELSE IF tgap >= qgap
                  THEN [rearrValues0 EXCEPT !.hit = TRUE, !.svType = "indel",
                                            !.indelSize = Some(<<"D", tgap>>)]
                  ELSE [rearrValues0 EXCEPT !.hit = TRUE, !.svType = "indel",
                                            !.indelSize = Some(<<"I", qgap>>)]
    ELSE rearrValues0

\* lines 667-698.  varReads answers the read-evidence queries: varReads.inv
\* is what check_inv_readcounts returns, varReads.td what check_td_readcounts
\* returns.  'D' + str(tgap) is the pair <<"D", tgap>>.
which_rearr(varReads, tcoords, qcoords, strands, brkpts) ==
    IF ~check_overlap(tcoords[1], tcoords[2])
    THEN IF strands[1] # strands[2]
         THEN [rearrValues0 EXCEPT !.hit = TRUE, !.svSubType = Some("inversion"),
                                   !.discReadCount = Some(varReads.inv),
                                   !.extQuery = Some(<<"check_inv_readcounts", brkpts>>)]
         ELSE LET tgap == brkpts[2] - brkpts[1]
                  qgap == qcoords[2][1] - qcoords[1][2]
              IN  IF tgap < 0
                  THEN [rearrValues0 EXCEPT !.hit = TRUE, !.svSubType = Some("tandem_dup"),
                                            !.discReadCount = Some(varReads.td),
                                            !.extQuery = Some(<<"check_td_readcounts", brkpts>>)]
                  ELSE IF tgap > qgap
                  THEN [rearrValues0 EXCEPT !.hit = TRUE, !.svType = "indel",
                                            !.indelSize = Some(<<"D", tgap>>)]
                  ELSE [rearrValues0 EXCEPT !.hit = TRUE, !.svType = "indel",
                                            !.indelSize = Some(<<"I", qgap>>)]
    ELSE rearrValues0

\* define_rearr, lines 711-717: the hits of the pairs, grouped by svType (a
\* key of the dict exists exactly when its list is not empty).
RECURSIVE rearrHits(_)
rearrHits(valsList) ==
    IF valsList = <<>> THEN [rearrangement |-> <<>>, indel |-> <<>>]
    ELSE LET rest == rearrHits(SubSeq(valsList, 1, Len(valsList) - 1))
             vals == valsList[Len(valsList)]
         IN  IF ~vals.hit THEN rest
             ELSE IF vals.svType = "rearrangement"
             THEN [rest EXCEPT !.rearrangement = Append(@, vals)]
             ELSE [rest EXCEPT !.indel = Append(@, vals)]

(*------------------------- which_rearr applied ---------------------------*)
\* Reference coordinates of the two segments, and the breakpoints passed.
RefPositions == {100, 150, 200, 250}
BrkptPositions == {150, 200, 205, 240}
RefRanges == { <<a, b>> : a \in RefPositions, b \in RefPositions }
Strands == {"+", "-"}
\* Query coordinates: the first segment ends at 50, the second starts
\* before, at or after it.
QueryPairs == { <<<<0, 50>>, <<s, s + 50>>>> : s \in {40, 50, 60, 70} }
\* Answers of the read-evidence collaborator.
VarReads == { [inv |-> i, td |-> t, other |-> 5] : i \in {0, 2}, t \in {0, 3} }

WhichRearrCalls ==
    { [varReads |-> v, tcoords |-> <<t1, t2>>, qcoords |-> q, strands |-> <<s1, s2>>,
       brkpts |-> <<b1, b2>>] :
        v \in VarReads, t1 \in { t \in RefRanges : t[1] < t[2] },
        t2 \in { t \in RefRanges : t[1] < t[2] }, q \in QueryPairs,
        s1 \in Strands, s2 \in Strands, b1 \in BrkptPositions, b2 \in BrkptPositions }

WhichRearrStart == wrCall \in WhichRearrCalls /\ wrRet = None

WhichRearrIdle == wrCall = None /\ wrRet = None

WhichRearr ==
    /\ wrCall # None
    /\ wrRet = None
    /\ wrRet' = Some(which_rearr(wrCall.varReads, wrCall.tcoords, wrCall.qcoords,
                                 wrCall.strands, wrCall.brkpts))
    /\ UNCHANGED wrCall
    /\ UNCHANGED <<abVars, bpVars, ccVars, fmVars, tmVars>>

(*------------------------- SVBreakpoints ---------------------------------*)
ToSet(seq) == { seq[k] : k \in 1..Len(seq) }

\* lines 332-348.  q is the pair <<q[0], q[1]>> of the source: the query
\* window, and the junction list of entries <<pos, leftFlank, rightFlank>>
\* whose rightFlank is None until the next segment sets it.  The
\* repeat-filter edges (f) are not modelled here.
SVBreakpoints_init ==
    [t |-> [target |-> None, other |-> None],
     formatted |-> <<>>, r |-> <<>>, q |-> <<<<0, 0>>, <<>>>>, chrs |-> <<>>,
     brkptStr |-> <<>>, tcoords |-> <<>>, qcoords |-> <<>>,
     counts |-> [n |-> <<>>, d |-> <<>>, b |-> <<>>], kmers |-> <<>>,
     genomicBrkpts |-> [target |-> <<>>, other |-> <<>>]]

\* 'chr' + name
Chrom(name) == <<"chr", name>>

\* targetKey with every segment filed under 'target'
targetKey_allTarget(br) == "target"

\* line 356
targetKey(br) == IF br.in_target THEN "target" ELSE "other"

appendGenomicBrkpt_targetOnly(genomicBrkpts, key, entry) ==
    IF key = "target" THEN [genomicBrkpts EXCEPT ![key] = Append(@, entry)]
    ELSE genomicBrkpts

\* lines 370, 380, 388, 394: self.genomicBrkpts[targetKey].append(entry)
appendGenomicBrkpt(genomicBrkpts, key, entry) ==
    [genomicBrkpts EXCEPT ![key] = Append(@, entry)]

\* The junction list with the right flank of its last entry set.
SetLastRightFlank(junctions, v) ==
    [junctions EXCEPT ![Len(junctions)] = <<@[1], @[2], Some(v)>>]

\* lines 397-401, common to the three branches.
RecordBrkpt(self, br, tbrkpt) ==
    [self EXCEPT !.brkptStr = Append(@, <<Chrom(br.chr), tbrkpt>>),
                 !.r = @ \o tbrkpt,
                 !.t = [@ EXCEPT ![targetKey(br)] = Some(<<br.chr, tbrkpt[1]>>)],
                 !.formatted = Append(@, <<Chrom(br.chr), tbrkpt>>)]

\* lines 350-401: update_brkpt_info(self, br, i, last_iter).  The outcome's
\* val is the object after the call.  An index into an empty junction list
\* (lines 373, 383) raises IndexError.
update_brkpt_info(self, br, i, last_iter) ==
    LET chrom == Chrom(br.chr)
        ts == br.tstart
        te == br.tend
        qs == br.qstart
        qe == br.qend
        key == targetKey(br)
        s0 == [self EXCEPT !.chrs = Append(@, br.chr),
                           !.tcoords = Append(@, <<ts, te>>),
                           !.qcoords = Append(@, <<qs, qe>>)]
        window == s0.q[1]
        junctions == s0.q[2]
    IN  IF i = 0
        THEN LET q0 == <<Max(0, qs - 1), qe>>
                 tbrkpt == IF br.strand = "-" THEN <<ts>> ELSE <<te>>
                 s1 == [s0 EXCEPT
                          !.q = <<q0, Append(junctions, <<qe, qe - q0[1], None>>)>>,
                          !.genomicBrkpts =
                              appendGenomicBrkpt(@, key, <<chrom, tbrkpt[1]>>)]
             IN  Return(RecordBrkpt(s1, br, tbrkpt))
        ELSE IF junctions = <<>>
        THEN Raise("IndexError", IF last_iter THEN 373 ELSE 383, s0)
        ELSE IF last_iter
        THEN LET prev == junctions[Len(junctions)]
                 tbrkpt == IF br.strand = "-" THEN <<te>> ELSE <<ts>>
                 s1 == [s0 EXCEPT
                          !.q = <<window,
                                  Append(SetLastRightFlank(junctions, qe - prev[1]),
                                         <<qs, qs - window[1], Some(qe - qs)>>)>>,
                          !.genomicBrkpts =
                              appendGenomicBrkpt(@, key, <<chrom, tbrkpt[1]>>)]
             IN  Return(RecordBrkpt(s1, br, tbrkpt))
        ELSE LET prev == junctions[Len(junctions)]
                 tbrkpt == IF br.strand = "-" THEN <<te, ts>> ELSE <<ts, te>>
                 g1 == appendGenomicBrkpt(s0.genomicBrkpts, key, <<chrom, ts, te>>)
                 g2 == IF br.strand = "-"
                       THEN appendGenomicBrkpt(g1, key, <<chrom, te, ts>>)
                       ELSE g1
                 s1 == [s0 EXCEPT
                          !.q = <<<<qs, qe>>,
                                  Append(Append(SetLastRightFlank(junctions, qe - prev[2]),
                                                <<qs, qs - window[1], Some(qe - qs)>>),
                                         <<qe, qe - qs, None>>)>>,
                          !.genomicBrkpts = g2]
             IN  Return(RecordBrkpt(s1, br, tbrkpt))

\* lines 410-418
diff_chr(self) ==
    IF Cardinality(ToSet(self.chrs)) = 1 THEN FALSE ELSE TRUE

(*------------------------- SVBreakpoints.set_counts ----------------------*)
\* min(seq) of a non-empty list of numbers
SeqMin(seq) == CHOOSE x \in ToSet(seq) : \A y \in ToSet(seq) : x <= y

\* The contig's read-count tracker, an external collaborator of this
\* module.  Asked for a window (lines 472, 474) it answers with the counts of
\* the positions left..right, none when right < left; asked for one
\* position (line 475) it answers with that position's count.
get_counts(readCounts, left, right) ==
    [k \in 1..(IF right < left THEN 0 ELSE right - left + 1) |-> readCounts[left + k - 1]]
get_counts_at(readCounts, pos) == readCounts[pos]

\* lines 469-476 for the junctions of rest, in order.  A right flank still
\* None makes qb[0] + min(qb[2], 5) a TypeError; min() of an empty window is
\* a ValueError.
RECURSIVE set_counts_loop(_, _, _)
set_counts_loop(self, rest, contig) ==
    IF rest = <<>> THEN Return(self)
    ELSE LET qb == Head(rest)
         IN  IF qb[3] = None THEN Raise("TypeError", 471, self)
             ELSE LET left_idx == qb[1] - Min(qb[2], MaxFlank)
                      right_idx == qb[1] + Min(Val(qb[3]), MaxFlank)
                      bc == get_counts(contig.readCounts, left_idx, right_idx)
                  IN  IF bc = <<>> THEN Raise("ValueError", 473, self)
                      ELSE set_counts_loop(
                               [self EXCEPT
                                  !.counts.n = Append(@, SeqMin(bc)),
                                  !.counts.d = Append(@, SeqMin(get_counts(contig.readCounts,
                                                                           qb[1] - 1, qb[1] + 1))),
                                  !.counts.b = Append(@, get_counts_at(contig.readCounts, qb[1])),
                                  !.kmers = Append(@, contig.kmerLocs[qb[1]])],
                               Tail(rest), contig)

\* lines 465-478: set_counts(self, svType, contig); the outcome's val is the
\* object as the call leaves it.
set_counts(self, svType, contig) == set_counts_loop(self, self.q[2], contig)

\* lines 461-463
get_splitread_count(self) == self.counts.b

(*------------------------- SVEvent --------------------------------------*)
\* The attributes of SVResult.__init__ (lines 110-131) the event code reads.
SVResult_init ==
    [svType |-> "", svSubtype |-> None, strands |-> None, discReadCount |-> None,
     description |-> None]

\* lines 493-510: the attributes SVEvent.__init__ assigns before it calls
\* add.  blatResults and blatResultsSorted are assigned nowhere in the class.
SVEvent_new(contigLen, svType) ==
    [svType |-> svType, svSubtype |-> "", events |-> <<>>, segmentResults |-> <<>>,
     annotated |-> FALSE, qlen |-> 0, nmatch |-> 0, in_target |-> FALSE,
     querySize |-> None, queryCoverage |-> [p \in 0..(contigLen - 1) |-> 0],
     brkpts |-> SVBreakpoints_init, rearrDesc |-> None,
     resultValues |-> SVResult_init]

\* add with the segment appended twice by line 518
SVEvent_add_appendTwice(self, realignResult) ==
    LET s1 == [self EXCEPT !.segmentResults = Append(Append(@, realignResult),
                                                     realignResult)]
    IN  IF ~NameBound("realignResults", {"self", "realignResult", "i"})
        THEN Raise("NameError", 521, s1)
        ELSE Return(s1)

\* lines 513-527: add(self, realignResult).  Line 518 appends the segment;
\* line 521 then reads the name realignResults, which is bound neither in
\* add (self, realignResult, i) nor in the module.
SVEvent_add(self, realignResult) ==
    LET s1 == [self EXCEPT !.segmentResults = Append(@, realignResult)]
    IN  IF ~NameBound("realignResults", {"self", "realignResult", "i"})
        THEN Raise("NameError", 521, s1)
        ELSE Return([s1 EXCEPT
                !.queryCoverage =
                    [p \in DOMAIN @ |->
                        IF realignResult.qstart <= p /\ p < realignResult.qend
                        THEN @[p] + 1 ELSE @[p]],
                !.qlen = @ + (realignResult.qend - realignResult.qstart),
                !.nmatch = @ + realignResult.nmatch,
                !.in_target = @ \/ realignResult.in_target])

\* lines 482-511: SVEvent(realignResult, contig, svType); an exception in
\* add leaves the caller without an object.
SVEvent_init(realignResult, contigLen, svType) ==
    LET o == SVEvent_add(SVEvent_new(contigLen, svType), realignResult)
    IN  IF Raised(o) THEN Raise(o.exc, o.line, None) ELSE Return(Some(o.val))

\* lines 532-538
result_valid(self) ==
    IF ~HasAttr(self, "blatResults")
    THEN Raise("AttributeError", 536, FALSE)
    ELSE Return(Len(self.blatResults) > 1 /\ self.in_target)

\* lines 549-559.  Members of blatResults are pairs <<qstart, segment>>, of
\* blatResultsSorted pairs <<segment, nmatch>>.
check_previous_add(self, br) ==
    IF ~HasAttr(self, "blatResultsSorted")
    THEN Raise("AttributeError", 551, self)
    ELSE LET last == Len(self.blatResultsSorted)
             prev_br == self.blatResultsSorted[last][1]
             prev_nmatch == self.blatResultsSorted[last][2]
         IN  IF /\ br.qstart = prev_br.qstart /\ br.qend = prev_br.qend
                /\ Abs(prev_nmatch - br.nmatch) < NmatchTolerance
                /\ ~prev_br.in_target /\ br.in_target
             THEN Return([self EXCEPT
                     !.blatResultsSorted = [@ EXCEPT ![last] = <<br, br.nmatch>>],
                     !.blatResults = [@ EXCEPT ![Len(@)] = <<br.qstart, br>>],
                     !.in_target = TRUE])
             ELSE Return(self)

(*------------------------- SVEvent.define_rearr --------------------------*)
\* line 713: which_rearr on the slices [(i-1):(i+1)] of tcoords, qcoords,
\* strands and of the flat breakpoint list brkpts.r (i counted from 1).
pairVals(self, varReads, i) ==
    which_rearr(varReads,
                SubSeq(self.brkpts.tcoords, i, i + 1),
                SubSeq(self.brkpts.qcoords, i, i + 1),
                SubSeq(self.resultValues.strands, i, i + 1),
                SubSeq(self.brkpts.r, i, i + 1))

\* lines 724-738, one hit rr of kind rearr on the running state
\* st = [svSubType, rs, rearrHit, rearrDesc].
aggregateOne(st, rearr, rr) ==
    IF rearr = "rearrangement"
    THEN IF ~st.rearrHit
         THEN [st EXCEPT !.svSubType = rr.svSubType,
                         !.rs = Val(rr.discReadCount),
                         !.rearrHit = TRUE]
         ELSE [st EXCEPT !.svSubType = None,
                         !.rearrDesc = Some(Append(IF @ = None THEN <<None>> ELSE Val(@),
                                                   rr.svSubType))]
    ELSE [st EXCEPT !.rearrDesc = Some(Append(IF @ = None THEN <<>> ELSE Val(@),
                                              Val(rr.indelSize)))]

RECURSIVE aggregateList(_, _, _)
aggregateList(st, rearr, hits) ==
    IF hits = <<>> THEN st
    ELSE aggregateList(aggregateOne(st, rearr, Head(hits)), rearr, Tail(hits))

\* lines 700-744: define_rearr(self).  keyOrder is the order in which the
\* dict rearrHits yields its keys.  The outcome's val carries the returned
\* triple, self.rearrDesc afterwards and the read-evidence queries made.
define_rearr(self, varReads, keyOrder) ==
    IF ~HasAttr(self, "blatResults")
    THEN Raise("AttributeError", 712, None)
    ELSE LET n == Len(self.blatResults)
             valsList == [i \in 1..(n - 1) |-> pairVals(self, varReads, i)]
             hits == rearrHits(valsList)
             st0 == [svSubType |-> None, rs |-> 0, rearrHit |-> FALSE,
                     rearrDesc |-> self.rearrDesc]
             st1 == aggregateList(st0, keyOrder[1], hits[keyOrder[1]])
             st2 == aggregateList(st1, keyOrder[2], hits[keyOrder[2]])
         IN  Return(Some(
                 [svType |-> "rearrangement", svSubType |-> st2.svSubType,
                  rs |-> IF st2.svSubType = None THEN varReads.other ELSE st2.rs,
                  rearrDesc |-> st2.rearrDesc,
                  otherQuery |-> IF st2.svSubType = None
                                 THEN Some(<<"check_other_readcounts", self.brkpts.r>>)
                                 ELSE None]))

(*------------------------- SVEvent.get_disc_read_count -------------------*)
\* lines 598-613 on querySortedResults: st = [inTarget, targetBrkpt, done];
\* inTarget is None or Some(<<in_target, tend>>) of the FIRST result, and is
\* not reassigned by later results.
RECURSIVE targetBrkptScan(_, _)
targetBrkptScan(st, results) ==
    IF results = <<>> \/ st.done THEN st.targetBrkpt
    ELSE LET result == Head(results)
         IN  IF st.inTarget = None
             THEN targetBrkptScan(
                      [st EXCEPT !.inTarget = Some(<<result.in_target, result.tend>>)],
                      Tail(results))
             ELSE IF result.in_target # Val(st.inTarget)[1]
             THEN targetBrkptScan(
                      [st EXCEPT !.targetBrkpt =
                                     IF result.in_target THEN Some(result.tstart)
                                     ELSE Some(Val(st.inTarget)[2]),
                                 !.done = TRUE],
                      Tail(results))
             ELSE targetBrkptScan(st, Tail(results))

scanStart == [inTarget |-> None, targetBrkpt |-> None, done |-> FALSE]

\* lines 572-620.  querySorted is sorted(self.blatResults, key=qstart) with
\* the segments taken out of their pairs.
get_disc_read_count(self, varReads, querySorted) ==
    IF ~HasAttr(self, "blatResults")
    THEN Raise("AttributeError", 597, None)
    ELSE IF self.brkpts.genomicBrkpts.target = <<>>
    THEN Raise("IndexError", 618, None)
    ELSE Return(Some(
             [discReadCount |-> varReads.inter,
              interQuery |-> <<self.brkpts.genomicBrkpts.target[1][1],
                               targetBrkptScan(scanStart, querySorted),
                               self.brkpts.genomicBrkpts.other>>]))

\* str.upper() on one base
Upper(c) ==
    CASE c = "a" -> "A" [] c = "c" -> "C" [] c = "g" -> "G" [] c = "t" -> "T"
      [] c = "n" -> "N" [] OTHER -> c

\* seq[a:b] for 0 <= a; the slice ends with the sequence when b is past it.
PySlice(seq, a, b) ==
    SubSeq(seq, a + 1, IF b < Len(seq) THEN b ELSE Len(seq))

\* lines 773-781: the 3-mers of alignedSeq, upper-cased, are the keys of a
\* dict; the value returned is round(len(nmers) / (len(alignedSeq) - 2) * 100, 4),
\* kept here as the integer number of 1/10000ths.
seq_complexity(alignedSeq) ==
    LET merSize == 3
        totalMersPossible == Len(alignedSeq) - 2
        nmers == { [k \in 1..merSize |-> Upper(alignedSeq[i + k])] :
                     i \in 0..(Len(alignedSeq) - (merSize - 1) - 1) }
    IN  IF totalMersPossible = 0
        THEN Raise("ZeroDivisionError", 780, None)
        ELSE IF totalMersPossible < 0
        THEN Return(Some(0))
        ELSE Return(Some(RoundHalfAway(Cardinality(nmers) * 100 * 10000,
                                       totalMersPossible)))

\* An attribute holding a number is not callable.
Callable(x) == x \notin Int

\* lines 768-781.  Line 771 reads self.blatResultsSorted; line 772 calls
\* blatResult.qstart and blatResult.qend, which the rest of the module reads
\* as numbers (lines 518-527, 898-909).
get_seq_complexity(self, contig) ==
    IF ~HasAttr(self, "blatResultsSorted")
    THEN Raise("AttributeError", 771, None)
    ELSE LET blatResult == self.blatResultsSorted[1][1]
         IN  IF ~Callable(blatResult.qstart) \/ ~Callable(blatResult.qend)
             THEN Raise("TypeError", 772, None)
             ELSE seq_complexity(PySlice(contig.seq, blatResult.qstart,
                                         blatResult.qend))

\* lines 749-752: the loop leaves the greatest int(meanCov) of the stored
\* results in the local maxMeanCov.
RECURSIVE maxMeanCovLoop(_, _)
maxMeanCovLoop(maxMeanCov, rest) ==
    IF rest = <<>> THEN maxMeanCov
    ELSE maxMeanCovLoop(IF Head(rest)[1].meanCov > maxMeanCov
                        THEN Head(rest)[1].meanCov ELSE maxMeanCov,
                        Tail(rest))

\* lines 746-752: get_max_meanCoverage(self).  The loop reads
\* self.blatResultsSorted; the function has no return statement, so a call
\* that completes yields None whatever maxMeanCov holds.
get_max_meanCoverage(self) ==
    IF ~HasAttr(self, "blatResultsSorted")
    THEN Raise("AttributeError", 750, None)
    ELSE LET maxMeanCov == maxMeanCovLoop(0, self.blatResultsSorted)
         IN  Return(None)

(*------------------------- update_brkpt_info applied ---------------------*)
\* Most member segments of one event.
MaxMembers == 3

\* Member segments: query range, chromosome and reference offset, strand,
\* in-target flag.  The target region lies on chromosome "1", so a segment
\* on another chromosome is not in the target.
BrkQueryRanges == {<<0, 50>>, <<40, 100>>, <<60, 90>>}
BrkRefs == {<<"1", 100>>, <<"2", 300>>}
TargetChr == "1"
BrkSegs ==
    { s \in { Seg(q[1], q[2], t[2] + q[1], t[2] + q[2], t[1], st, it, q[2] - q[1]) :
                 q \in BrkQueryRanges, t \in BrkRefs, st \in Strands, it \in BOOLEAN } :
        s.in_target => s.chr = TargetChr }

\* sorted(svEvent.blatResults, key=lambda x: x[0]), line 166: by query start.
SortedByQstart(seq) ==
    \A k \in 1..(Len(seq) - 1) : seq[k].qstart <= seq[k + 1].qstart

MemberLists ==
    UNION { { m \in [1..n -> BrkSegs] : SortedByQstart(m) } : n \in 1..MaxMembers }

BrkptsStart ==
    /\ blatResSorted \in MemberLists
    /\ svBrkpts = SVBreakpoints_init
    /\ bpIdx = 0
    /\ resStrands = <<>>
    /\ clsCall = None
    /\ clsRet = None

BrkptsIdle ==
    /\ blatResSorted = <<>> /\ svBrkpts = None /\ bpIdx = 0
    /\ resStrands = <<>> /\ clsCall = None /\ clsRet = None

\* One pass of the loop of lines 178-189, as far as the breakpoints go:
\* svEvent.brkpts.update_brkpt_info(blatResult, i, i == len(blatResSorted) - 1)
UpdateBrkptInfo ==
    /\ bpIdx < Len(blatResSorted)
    /\ LET o == update_brkpt_info(svBrkpts, blatResSorted[bpIdx + 1], bpIdx,
                                  bpIdx = Len(blatResSorted) - 1)
       IN  /\ ~Raised(o)
           /\ svBrkpts' = o.val
    /\ bpIdx' = bpIdx + 1
    /\ resStrands' = Append(resStrands, blatResSorted[bpIdx + 1].strand)
    /\ UNCHANGED <<blatResSorted, clsCall, clsRet>>
    /\ UNCHANGED <<abVars, wrVars, ccVars, fmVars, tmVars>>

\* Length of the contigs called.
ContigLen == 100

\* The event whose members the loop visited: the attributes of SVEvent_new,
\* with the members and tallies of lines 518-527, the breakpoints as updated
\* and the strands of line 187.
FmtEvent ==
    [SVEvent_new(ContigLen, "rearrangement") EXCEPT
        !.segmentResults = blatResSorted,
        !.in_target = \E k \in 1..Len(blatResSorted) : blatResSorted[k].in_target,
        !.brkpts = svBrkpts,
        !.resultValues = [@ EXCEPT !.strands = resStrands]]

\* Answers of the read-evidence collaborator to the event-level queries.
EventVarReads ==
    { [inv |-> 2, td |-> 3, other |-> o, inter |-> 7] : o \in {0, 5} }
KeyOrders == { <<"rearrangement", "indel">>, <<"indel", "rearrangement">> }

\* svEvent.define_rearr() on a same-chromosome event (lines 200-202).
DefineRearr ==
    /\ bpIdx = Len(blatResSorted)
    /\ clsCall = None
    /\ ~diff_chr(svBrkpts)
    /\ \E v \in EventVarReads, ko \in KeyOrders :
          /\ clsRet' = Some(define_rearr(FmtEvent, v, ko))
          /\ clsCall' = Some([op |-> "define_rearr", varReads |-> v, keyOrder |-> ko])
    /\ UNCHANGED <<blatResSorted, svBrkpts, bpIdx, resStrands>>
    /\ UNCHANGED <<abVars, wrVars, ccVars, fmVars, tmVars>>

\* svEvent.get_disc_read_count() on a cross-chromosome event (lines 193-196).
GetDiscReadCount ==
    /\ bpIdx = Len(blatResSorted)
    /\ clsCall = None
    /\ diff_chr(svBrkpts)
    /\ \E v \in EventVarReads :
          /\ clsRet' = Some(get_disc_read_count(FmtEvent, v, blatResSorted))
          /\ clsCall' = Some([op |-> "get_disc_read_count", varReads |-> v])
    /\ UNCHANGED <<blatResSorted, svBrkpts, bpIdx, resStrands>>
    /\ UNCHANGED <<abVars, wrVars, ccVars, fmVars, tmVars>>

\* Contig sequences: one base repeated, a mixed-case repeat, and a repeat of
\* ten bases whose 3-mers all differ.
SeqPatterns ==
    { <<"A">>, <<"a", "A", "c">>,
      <<"A", "C", "G", "T", "T", "G", "C", "A", "A", "T">> }
ContigSeqs ==
    { [i \in 1..ContigLen |-> pat[((i - 1) % Len(pat)) + 1]] : pat \in SeqPatterns }

\* svEvent.get_seq_complexity() for a cross-chromosome event (line 56).
GetSeqComplexity ==
    /\ bpIdx = Len(blatResSorted)
    /\ clsCall = None
    /\ diff_chr(svBrkpts)
    /\ \E seq \in ContigSeqs :
          /\ clsRet' = Some(get_seq_complexity(FmtEvent, [seq |-> seq]))
          /\ clsCall' = Some([op |-> "get_seq_complexity", contigSeq |-> seq])
    /\ UNCHANGED <<blatResSorted, svBrkpts, bpIdx, resStrands>>
    /\ UNCHANGED <<abVars, wrVars, ccVars, fmVars, tmVars>>

\* The contig's per-base read counts and kmer counts, over the positions a
\* window can reach.
CountPositions == (0 - MaxFlank - 1)..(ContigLen + MaxFlank + 1)
Contigs ==
    { [readCounts |-> [p \in CountPositions |-> 3],
       kmerLocs |-> [p \in CountPositions |-> 2]],
      [readCounts |-> [p \in CountPositions |-> (p + 7) % 5],
       kmerLocs |-> [p \in CountPositions |-> (p + 7) % 3]] }

\* svEvent.set_brkpt_counts(svType) once every member of an event of two or
\* more has been visited (lines 195, 200).
SetCounts ==
    /\ bpIdx = Len(blatResSorted)
    /\ Len(blatResSorted) >= 2
    /\ clsCall = None
    /\ \E contig \in Contigs :
          LET svType == IF diff_chr(svBrkpts) THEN "trl" ELSE "rearr"
              o == set_counts(svBrkpts, svType, contig)
          IN  /\ clsRet' = Some([exc |-> o.exc, line |-> o.line, val |-> None])
              /\ svBrkpts' = o.val
              /\ clsCall' = Some([op |-> "set_counts", contig |-> contig])
    /\ UNCHANGED <<blatResSorted, bpIdx, resStrands>>
    /\ UNCHANGED <<abVars, wrVars, ccVars, fmVars, tmVars>>

\* svEvent.get_max_meanCoverage() for the diagnostics of a rearrangement
\* (lines 64, 74).
GetMaxMeanCoverage ==
    /\ bpIdx = Len(blatResSorted)
    /\ Len(blatResSorted) >= 2
    /\ clsCall = None
    /\ clsRet' = Some(get_max_meanCoverage(FmtEvent))
    /\ clsCall' = Some([op |-> "get_max_meanCoverage"])
    /\ UNCHANGED <<blatResSorted, svBrkpts, bpIdx, resStrands>>
    /\ UNCHANGED <<abVars, wrVars, ccVars, fmVars, tmVars>>

BrkptsNext ==
    \/ UpdateBrkptInfo \/ DefineRearr \/ GetDiscReadCount \/ GetSeqComplexity
    \/ SetCounts \/ GetMaxMeanCoverage

(*------------------------- specifications --------------------------------*)
\* check_add_br on its arguments.
(*------------------------- ContigCaller ---------------------------------*)
\* lines 820-825: ContigCaller(realignment, contig, params).  realignment
\* carries the answers of has_results(), get_sorted_realign_results(), qsize
\* and of the first result's check_indel(); contig carries len(contig.seq).
ContigCaller_init(realignment, contig) ==
    [realignment |-> realignment, contig |-> contig, clippedQs |-> <<>>,
     svEvent |-> None]

\* hitsGap with either edge tolerance taken as a hit by itself
hitsGap_anyEdge(realignResult, gap) ==
    LET gapStart == gap[1]
        gapEnd == gap[2]
        startWithinGap == realignResult.qstart >= gapStart /\ realignResult.qstart <= gapEnd
        endWithinGap == realignResult.qend <= gapEnd /\ realignResult.qend >= gapStart
        gapEdgeDistStart == /\ realignResult.qstart <= gapStart
                            /\ (gapStart - realignResult.qstart) < GapEdgeDist
        gapEdgeDistEnd == /\ realignResult.qend >= gapEnd
                          /\ (realignResult.qend - gapEnd) < GapEdgeDist
    IN  startWithinGap \/ endWithinGap \/ gapEdgeDistStart \/ gapEdgeDistEnd

\* lines 898-902: the segment touches the gap
hitsGap(realignResult, gap) ==
    LET gapStart == gap[1]
        gapEnd == gap[2]
        startWithinGap == realignResult.qstart >= gapStart /\ realignResult.qstart <= gapEnd
        endWithinGap == realignResult.qend <= gapEnd /\ realignResult.qend >= gapStart
        gapEdgeDistStart == /\ realignResult.qstart <= gapStart
                            /\ (gapStart - realignResult.qstart) < GapEdgeDist
        gapEdgeDistEnd == /\ realignResult.qend >= gapEnd
                          /\ (realignResult.qend - gapEnd) < GapEdgeDist
    IN  \/ startWithinGap
        \/ endWithinGap
        \/ (gapEdgeDistStart /\ (endWithinGap \/ gapEdgeDistEnd))
        \/ (gapEdgeDistEnd /\ (startWithinGap \/ gapEdgeDistStart))

\* lines 903-909: the residual sub-gaps of a gap the segment touches
ngapOf(realignResult, gap) ==
    LET gapStart == gap[1]
        gapEnd == gap[2]
    IN  (IF /\ realignResult.qstart > gapStart
            /\ (realignResult.qstart - 1 - gapStart) > MinGapLen
         THEN << <<gapStart, realignResult.qstart - 1>> >> ELSE <<>>)
        \o
        (IF /\ realignResult.qend < gapEnd
            /\ (gapEnd - realignResult.qend + 1) > MinGapLen
         THEN << <<realignResult.qend + 1, gapEnd>> >> ELSE <<>>)

\* line 929: the parameters of check_add_br after self
check_add_br_params == <<"realignResult", "gapStart", "gapEnd">>

\* A call self.check_add_br(*args): Python binds the positional arguments to
\* the parameters before the body runs and raises TypeError at the call when
\* their numbers differ.
call_check_add_br(self, args, line) ==
    IF Len(args) # Len(check_add_br_params)
    THEN Raise("TypeError", line, FALSE)
    ELSE LET o == check_add_br(self.svEvent, args[1], args[2], args[3])
         IN  IF Raised(o) THEN Raise(o.exc, o.line, FALSE) ELSE Return(o.val.add)

\* lines 890-927: iter_gaps(self, gaps, realignResult, iterIdx), from the
\* gap at the head of gaps on.  The val of the outcome is the returned list
\* (on a raise: the list built so far) and self as the call leaves it.
RECURSIVE iter_gaps_loop(_, _, _, _, _, _)
iter_gaps_loop(self, gaps, realignResult, iterIdx, new_gaps, hit) ==
    IF gaps = <<>>
    THEN IF hit THEN Return([ret |-> new_gaps, self |-> self])
         ELSE IF self.svEvent = None
         THEN Raise("AttributeError", 926, [ret |-> new_gaps, self |-> self])
         ELSE LET o == check_previous_add(Val(self.svEvent), realignResult)
              IN  IF Raised(o)
                  THEN Raise(o.exc, o.line, [ret |-> new_gaps, self |-> self])
                  ELSE Return([ret |-> new_gaps,
                               self |-> [self EXCEPT !.svEvent = Some(o.val)]])
    ELSE LET gap == Head(gaps)
             ngap == ngapOf(realignResult, gap)
         IN  IF ~hitsGap(realignResult, gap)
             THEN iter_gaps_loop(self, Tail(gaps), realignResult, iterIdx,
                                 Append(new_gaps, gap), hit)
             ELSE IF iterIdx = 0
             THEN LET o == SVEvent_init(realignResult, self.contig.seqLen, "rearrangement")
                  IN  IF Raised(o)
                      THEN Raise(o.exc, o.line, [ret |-> new_gaps, self |-> self])
                      ELSE iter_gaps_loop([self EXCEPT !.svEvent = o.val], Tail(gaps),
                                          realignResult, iterIdx, new_gaps \o ngap, TRUE)
             ELSE LET c == call_check_add_br(self,
                               <<realignResult.qstart, realignResult.qend,
                                 gap[1], gap[2], realignResult>>, 915)
                  IN  IF Raised(c)
                      THEN Raise(c.exc, c.line, [ret |-> new_gaps, self |-> self])
                      ELSE IF ~c.val
                      THEN iter_gaps_loop(self, Tail(gaps), realignResult, iterIdx,
                                          Append(new_gaps, gap), hit)
                      ELSE LET a == SVEvent_add(Val(self.svEvent), realignResult)
                               self1 == [self EXCEPT !.svEvent = Some(a.val)]
                           IN  IF Raised(a)
                               THEN Raise(a.exc, a.line,
                                          [ret |-> new_gaps \o ngap, self |-> self1])
                               ELSE iter_gaps_loop(self1, Tail(gaps), realignResult,
                                                   iterIdx, new_gaps \o ngap, TRUE)

iter_gaps(self, gaps, realignResult, iterIdx) ==
    iter_gaps_loop(self, gaps, realignResult, iterIdx, <<>>, FALSE)

\* lines 853-865: check_indels(self), from result number i (counted from 0)
\* on.  Line 856 reads the name realignResults as soon as i == 0 holds.
RECURSIVE check_indels_loop(_, _, _)
check_indels_loop(self, rest, i) ==
    IF rest = <<>> THEN Return([ret |-> FALSE, self |-> self])
    ELSE IF i = 0 /\ ~NameBound("realignResults",
                                {"self", "hasIndel", "sortedRealignResults",
                                 "i", "realignResult"})
    THEN Raise("NameError", 856, [ret |-> FALSE, self |-> self])
    ELSE IF i = 0 /\ self.realignment.first_is_indel
    THEN LET o == SVEvent_init(Head(rest), self.contig.seqLen, "indel")
         IN  IF Raised(o) THEN Raise(o.exc, o.line, [ret |-> TRUE, self |-> self])
             ELSE Return([ret |-> TRUE, self |-> [self EXCEPT !.svEvent = o.val]])
    ELSE check_indels_loop([self EXCEPT !.clippedQs = Append(@, Head(rest))],
                           Tail(rest), i + 1)

check_indels(self) == check_indels_loop(self, self.realignment.results, 0)

\* lines 876-880: the loop of check_svs over self.clippedQs from number i on.
\* mergedClip[1] is a reference to the event object itself, recorded here as
\* None or "svEvent".  check_svs_step is lines 879-880, given the outcome g
\* of the call of iter_gaps at line 878.
RECURSIVE check_svs_loop(_, _, _, _)
RECURSIVE check_svs_step(_, _, _)
check_svs_loop(self, i, gaps, mergedClip) ==
    IF i >= Len(self.clippedQs)
    THEN Return([ret |-> mergedClip, self |-> self])
    ELSE check_svs_step(i, mergedClip, iter_gaps(self, gaps, self.clippedQs[i + 1], i))

check_svs_step(i, mergedClip, g) ==
    IF Raised(g)
    THEN Raise(g.exc, g.line, [ret |-> mergedClip, self |-> g.val.self])
    ELSE IF g.val.self.svEvent = None
    THEN Raise("AttributeError", 879, [ret |-> mergedClip, self |-> g.val.self])
    ELSE check_svs_loop(g.val.self, i + 1, g.val.ret,
                        IF Val(g.val.self.svEvent).qlen > mergedClip[1]
                        THEN <<Val(g.val.self.svEvent).qlen, Some("svEvent")>>
                        ELSE mergedClip)

\* lines 884-888: the validity gate that ends check_svs
check_svs_gate(self) ==
    IF self.svEvent = None
    THEN Return([ret |-> FALSE, self |-> self])
    ELSE LET v == result_valid(Val(self.svEvent))
         IN  IF Raised(v) THEN Raise(v.exc, v.line, [ret |-> FALSE, self |-> self])
             ELSE IF v.val THEN Return([ret |-> TRUE, self |-> self])
             ELSE Return([ret |-> FALSE, self |-> [self EXCEPT !.svEvent = None]])

\* line 881 and the gate, given the outcome l of the loop
check_svs_end(l) ==
    IF Raised(l) THEN Raise(l.exc, l.line, [ret |-> FALSE, self |-> l.val.self])
    ELSE check_svs_gate([l.val.self EXCEPT !.svEvent =
                             IF l.val.ret[2] = None THEN None ELSE @])

\* lines 867-888: check_svs(self)
check_svs(self) ==
    IF Len(self.clippedQs) > 1
    THEN check_svs_end(check_svs_loop(self, 0, << <<0, self.realignment.qsize>> >>,
                                      <<0, None>>))
    ELSE check_svs_gate(self)

\* lines 561-570 and 166: both formatting entries first read
\* svEvent.blatResults.
format_values(svEvent, line) ==
    IF ~HasAttr(svEvent, "blatResults")
    THEN Raise("AttributeError", line, svEvent)
    ELSE Return(svEvent)

\* lines 836-838, given the outcome cs of self.check_svs()
call_svs_rearr(cs) ==
    IF Raised(cs) THEN Raise(cs.exc, cs.line, [ret |-> None, self |-> cs.val.self])
    ELSE IF cs.val.ret
    THEN LET f == format_values(Val(cs.val.self.svEvent), 166)
         IN  IF Raised(f) THEN Raise(f.exc, f.line, [ret |-> None, self |-> cs.val.self])
             ELSE Return([ret |-> cs.val.self.svEvent, self |-> cs.val.self])
    ELSE Return([ret |-> cs.val.self.svEvent, self |-> cs.val.self])

\* lines 834-838, given the outcome ci of self.check_indels()
call_svs_indel(ci) ==
    IF Raised(ci) THEN Raise(ci.exc, ci.line, [ret |-> None, self |-> ci.val.self])
    ELSE IF ci.val.ret
    THEN LET f == format_values(Val(ci.val.self.svEvent), 564)
         IN  IF Raised(f) THEN Raise(f.exc, f.line, [ret |-> None, self |-> ci.val.self])
             ELSE Return([ret |-> ci.val.self.svEvent, self |-> ci.val.self])
    ELSE call_svs_rearr(check_svs(ci.val.self))

\* lines 827-838: call_svs(self); ret is the returned self.svEvent.
call_svs(self) ==
    IF ~self.realignment.has_results
    THEN Return([ret |-> self.svEvent, self |-> self])
    ELSE call_svs_indel(check_indels(self))

(*------------------------- Output formatting ----------------------------*)
\* A Python string is the sequence of its characters; a field value is a
\* Python object tagged with its type.
TAB == "\t"
PyNone == [t |-> "NoneType"]
PyStr(s) == [t |-> "str", chars |-> s]
PyInt(n) == [t |-> "int", int |-> n]
PyBool(b) == [t |-> "bool", bool |-> b]
PyList(l) == [t |-> "list", items |-> l]

Digit(d) == <<"0", "1", "2", "3", "4", "5", "6", "7", "8", "9">>[d + 1]
RECURSIVE StrInt(_)
StrInt(n) == IF n < 10 THEN <<Digit(n)>> ELSE StrInt(n \div 10) \o <<Digit(n % 10)>>

\* sep.join(strs)
RECURSIVE Join(_, _)
Join(sep, strs) ==
    IF strs = <<>> THEN <<>>
    ELSE IF Len(strs) = 1 THEN strs[1]
    ELSE strs[1] \o sep \o Join(sep, Tail(strs))

\* s.split(c) for a one-character separator c
RECURSIVE Split(_, _)
Split(s, c) ==
    IF \A i \in 1..Len(s) : s[i] # c THEN <<s>>
    ELSE LET i == CHOOSE j \in 1..Len(s) :
                      s[j] = c /\ \A k \in 1..(j - 1) : s[k] # c
         IN  <<SubSeq(s, 1, i - 1)>> \o Split(SubSeq(s, i + 1, Len(s)), c)

\* repr(x) and str(x); the two differ on strings only
RECURSIVE Repr(_)
Str(x) ==
    IF x.t = "str" THEN x.chars
    ELSE IF x.t = "int" THEN StrInt(x.int)
    ELSE IF x.t = "bool" THEN (IF x.bool THEN <<"T", "r", "u", "e">>
                               ELSE <<"F", "a", "l", "s", "e">>)
    ELSE IF x.t = "NoneType" THEN <<"N", "o", "n", "e">>
    ELSE <<"[">> \o Join(<<",", " ">>, [i \in 1..Len(x.items) |-> Repr(x.items[i])]) \o <<"]">>
Repr(x) == IF x.t = "str" THEN <<"'">> \o x.chars \o <<"'">> ELSE Str(x)

\* lines 274-293
headerStr ==
    << "Target_Name", "SV_type", "SV_subtype", "Description",
       "All_genomic_breakpoints", "Target_genomic_breakpoints",
       "Split_read_counts", "Discordant_read_counts",
       "Read_depth_at_genomic_breakpoints", "Align_cigar", "Strands",
       "Total_mismatches", "Total_matching", "Contig_ID", "Contig_length",
       "Contig_sequence", "Filtered", "Filtered_reason", "Filter_values" >>

\* lines 295-313: the record's fields in output order; the 15th item is
\* len(self.contigSeq) and the last two are self.filtered's entries.
outFields ==
    << "targetName", "svType", "svSubtype", "description", "fullBreakpointStr",
       "targetBreakpointStr", "splitReadCount", "discReadCount",
       "breakpointCoverageDepth", "alignCigar", "strands", "totalMismatches",
       "totalMatching", "contigId", "len(contigSeq)", "contigSeq",
       "filtered.status", "filtered.reason" >>

outItem(self, f) ==
    IF f = "len(contigSeq)" THEN PyInt(Len(self.contigSeq.chars))
    ELSE IF f = "filtered.status" THEN self.filtered.status
    ELSE IF f = "filtered.reason" THEN self.filtered.reason
    ELSE self[f]

\* lines 315-320: one output item as a string
outItemStr(item) ==
    IF item.t # "list" THEN Str(item)
    ELSE Join(<<",">>, [i \in 1..Len(item.items) |-> Str(item.items[i])])

\* The smallest of a list of ints: min(list)
PyMin(l) == CHOOSE x \in ToSet(l.items) : \A y \in ToSet(l.items) : x.int <= y.int

\* lines 78-98: the (key, value) pairs FilterValues.get_formatted_output_values
\* puts into outputValues, in the order of insertion
filterOutputValues(fv, svType, svSubtype) ==
    IF svType = PyStr(<<"indel">>)
    THEN << <<"maxeventSize", fv.maxEventSize>>,
            <<"meanHitFreq", fv.resultMeanHitFreq>>,
            <<"breakpointCoverages", fv.brkptCoverages.items[1]>>,
            <<"minSeqEdgeRealignmentPercent", PyMin(fv.flankMatchPercents)>>,
            <<"deletedSequences", fv.deletedSeqs>>,
            <<"insertedSequences", fv.insertedSeqs>> >>
    ELSE IF svType = PyStr(<<"rearrangement">>)
    THEN << <<"minBrkptKmers", fv.minBrkptKmers>>,
            <<"minSegmentLen", fv.minSegmentLen>>,
            <<"missingQueryCoverage", fv.missingQueryCoverage>>,
            <<"maxSegmentOverlap", fv.maxSegmentOverlap>>,
            <<"maxSegmentMeanHitFreq", fv.maxMeanCoverage>> >>
         \o (IF svSubtype = PyStr(<<"trl">>)
             THEN << <<"breakpointCoverages", fv.brkptCoverages>>,
                     <<"sequenceComplexity", fv.seqComplexity>>,
                     <<"startEndMissingQueryCoverage", fv.startEndMissingQueryCoverage>>,
                     <<"nReadStrands", fv.nReadStrands>>,
                     <<"maxRealignmentGapSize", fv.maxRealignmentGap>> >>
             ELSE <<>>)
    ELSE <<>>

\* lines 100-103: key + '=' + str(value) for the items of the dict, joined
\* by ';'.  itemsOrder is the order in which the dict yields its items, a
\* permutation of the insertion order.
FilterValues_get_formatted_output_values(fv, svType, svSubtype, itemsOrder) ==
    LET outputValues == filterOutputValues(fv, svType, svSubtype)
        outputList == [i \in 1..Len(outputValues) |->
                          <<outputValues[itemsOrder[i]][1]>> \o <<"=">>
                              \o Str(outputValues[itemsOrder[i]][2])]
    IN  Join(<<";">>, outputList)

\* lines 272-324: SVResult.get_formatted_output_values; a header name and a
\* dict key stand as one character each.
get_formatted_output_values_tabsInLists(self, itemsOrder) ==
    LET outListStr == [i \in 1..Len(outFields) |->
                          IF outItem(self, outFields[i]).t # "list"
                          THEN Str(outItem(self, outFields[i]))
                          ELSE Join(<<TAB>>, [k \in 1..Len(outItem(self, outFields[i]).items) |->
                                                  Str(outItem(self, outFields[i]).items[k])])]
        formattedFilterValsStr ==
            FilterValues_get_formatted_output_values(self.filterValues, self.svType,
                                                     self.svSubtype, itemsOrder)
    IN  <<Join(<<TAB>>, [i \in 1..Len(headerStr) |-> <<headerStr[i]>>]),
          Join(<<TAB>>, Append(outListStr, formattedFilterValsStr))>>

get_formatted_output_values(self, itemsOrder) ==
    LET outListStr == [i \in 1..Len(outFields) |->
                          outItemStr(outItem(self, outFields[i]))]
        formattedFilterValsStr ==
            FilterValues_get_formatted_output_values(self.filterValues, self.svType,
                                                     self.svSubtype, itemsOrder)
    IN  <<Join(<<TAB>>, [i \in 1..Len(headerStr) |-> <<headerStr[i]>>]),
          Join(<<TAB>>, Append(outListStr, formattedFilterValsStr))>>

(*------------------------- Output formatting applied --------------------*)
\* Field values of the records formatted: scalars, and lists of one or two
\* scalars.  Breakpoint strings carry the commas get_brkpt_str puts between
\* breakpoints.
ScalarValues ==
    { PyNone, PyInt(0), PyInt(12), PyStr(<<>>), PyStr(<<"A", "c">>),
      PyStr(<<"c", ":", "7", "-", "9", ",", "c", ":", "7">>) }
ListElements == { PyNone, PyInt(3), PyInt(10), PyStr(<<>>), PyStr(<<"5", "M">>) }
ListValues ==
    { PyList(<<x>>) : x \in ListElements }
    \cup { PyList(<<x, y>>) : x \in ListElements, y \in ListElements }

\* FilterValues as set_indel_values, set_rearr_values and set_trl_values
\* leave it (lines 19-74)
IndelFilterValues ==
    [maxEventSize |-> PyInt(4), resultMeanHitFreq |-> PyInt(1),
     brkptCoverages |-> PyList(<<PyInt(3), PyInt(8)>>),
     flankMatchPercents |-> PyList(<<PyInt(40), PyInt(35)>>),
     minSegmentLen |-> PyNone, minBrkptKmers |-> PyNone, seqComplexity |-> PyNone,
     startEndMissingQueryCoverage |-> PyNone, missingQueryCoverage |-> PyNone,
     maxSegmentOverlap |-> PyNone, maxMeanCoverage |-> PyNone, nReadStrands |-> PyNone,
     maxRealignmentGap |-> PyNone,
     deletedSeqs |-> PyList(<<PyStr(<<"A", "c">>), PyStr(<<"A">>)>>),
     insertedSeqs |-> PyList(<<>>)]
RearrFilterValues ==
    [maxEventSize |-> PyNone, resultMeanHitFreq |-> PyNone,
     brkptCoverages |-> PyList(<<PyInt(3), PyInt(8)>>),
     flankMatchPercents |-> PyNone,
     minSegmentLen |-> PyInt(50), minBrkptKmers |-> PyInt(2), seqComplexity |-> PyInt(75),
     startEndMissingQueryCoverage |-> PyInt(10), missingQueryCoverage |-> PyInt(12),
     maxSegmentOverlap |-> PyInt(0), maxMeanCoverage |-> PyNone, nReadStrands |-> PyInt(2),
     maxRealignmentGap |-> PyInt(0),
     deletedSeqs |-> PyNone, insertedSeqs |-> PyNone]

\* SVResult as format_indel_values (lines 137-160) and
\* format_rearrangement_values (lines 170-212) leave it
IndelResult ==
    [targetName |-> PyStr(<<"g">>), svType |-> PyStr(<<"indel">>), svSubtype |-> PyNone,
     description |-> PyList(<<PyStr(<<"D", "4">>)>>),
     fullBreakpointStr |-> PyStr(<<"c", ":", "7", "-", "9">>),
     targetBreakpointStr |-> PyStr(<<"c", ":", "7", "-", "9">>),
     splitReadCount |-> PyList(<<PyInt(3), PyInt(8)>>), discReadCount |-> PyNone,
     breakpointCoverageDepth |-> PyList(<<PyInt(10), PyInt(12)>>),
     alignCigar |-> PyStr(<<"5", "M">>), strands |-> PyStr(<<"+">>),
     totalMismatches |-> PyInt(0), totalMatching |-> PyInt(50),
     contigId |-> PyStr(<<"c", "1">>), contigSeq |-> PyStr(<<"A", "c", "A">>),
     filtered |-> [status |-> PyBool(FALSE), reason |-> PyStr(<<>>)],
     filterValues |-> IndelFilterValues]
RearrResult(svSubtype) ==
    [targetName |-> PyStr(<<"g">>), svType |-> PyStr(<<"rearrangement">>),
     svSubtype |-> svSubtype, description |-> PyNone,
     fullBreakpointStr |-> PyStr(<<"c", ":", "7", ",", "c", ":", "9">>),
     targetBreakpointStr |-> PyStr(<<"c", ":", "7">>),
     splitReadCount |-> PyList(<<PyInt(3)>>), discReadCount |-> PyInt(2),
     breakpointCoverageDepth |-> PyList(<<PyInt(10), PyInt(12)>>),
     alignCigar |-> PyList(<<PyStr(<<"5", "M">>), PyStr(<<"5", "M">>)>>),
     strands |-> PyList(<<PyStr(<<"+">>), PyStr(<<"-">>)>>),
     totalMismatches |-> PyList(<<PyInt(0), PyInt(3)>>),
     totalMatching |-> PyList(<<PyInt(50), PyInt(12)>>),
     contigId |-> PyStr(<<"c", "1">>), contigSeq |-> PyStr(<<"A", "c", "A">>),
     filtered |-> [status |-> PyBool(FALSE), reason |-> PyStr(<<>>)],
     filterValues |-> RearrFilterValues]
BaseResults ==
    { IndelResult, RearrResult(PyStr(<<"trl">>)), RearrResult(PyStr(<<"inversion">>)),
      RearrResult(PyNone) }

VariedFields ==
    { "targetName", "description", "fullBreakpointStr", "targetBreakpointStr",
      "splitReadCount", "discReadCount", "breakpointCoverageDepth", "alignCigar",
      "strands", "totalMismatches", "totalMatching", "contigId" }
ResultRecords ==
    { [b EXCEPT ![f] = v] :
        b \in BaseResults, f \in VariedFields, v \in ScalarValues \cup ListValues }
    \cup { [b EXCEPT !.contigSeq = PyStr(q)] :
             b \in BaseResults, q \in { <<>>, <<"A">>, <<"A", "c", "g", "T">> } }
    \cup { [b EXCEPT !.filtered = [status |-> PyBool(TRUE), reason |-> PyStr(q)]] :
             b \in BaseResults, q \in { <<"l", "o", "w">>, <<"l", "o", "w", " ", "c">> } }

\* The orders dict.items() may yield n items in: the order of insertion and
\* its reverse stand for the permutations.
ItemsOrders(n) == { [i \in 1..n |-> i], [i \in 1..n |-> n + 1 - i] }

FormatStart == fmCall \in { Some(r) : r \in ResultRecords } /\ fmRet = None
FormatIdle == fmCall = None /\ fmRet = None

\* resultValues.get_formatted_output_values()
FormatOutput ==
    /\ fmCall # None
    /\ fmRet = None
    /\ LET self == Val(fmCall)
       IN  \E itemsOrder \in ItemsOrders(Len(filterOutputValues(self.filterValues,
                                                                 self.svType, self.svSubtype))) :
              fmRet' = Some(get_formatted_output_values(self, itemsOrder))
    /\ UNCHANGED fmCall
    /\ UNCHANGED <<abVars, wrVars, bpVars, ccVars, tmVars>>

(*------------------------- ContigCaller applied -------------------------*)
\* The most realignment results of one contig.
MaxResults == 2

CallerQueryRanges ==
    { <<0, 50>>, <<30, 95>>, <<40, 50>>, <<40, ContigLen>>, <<60, 90>> }
CallerSegs ==
    { Seg(q[1], q[2], 100 + q[1], 100 + q[2], "1", "+", it, q[2] - q[1]) :
        q \in CallerQueryRanges, it \in BOOLEAN }
ResultLists == UNION { [1..n -> CallerSegs] : n \in 0..MaxResults }

Realignments ==
    { [has_results |-> FALSE, results |-> <<>>, qsize |-> ContigLen,
       first_is_indel |-> FALSE] }
    \cup
    { [has_results |-> TRUE, results |-> rs, qsize |-> ContigLen,
       first_is_indel |-> b] :
        rs \in ResultLists, b \in BOOLEAN }

\* Gap lists iter_gaps is called with: the whole contig, and what is left of
\* it beside segments already placed.
GapLists ==
    { << <<0, ContigLen>> >>, << <<51, ContigLen>> >>, << <<0, 39>> >>,
      << <<0, 39>>, <<91, ContigLen>> >>, << <<45, 95>> >> }

\* The event of one segment: the attributes of SVEvent_new with the member
\* and the tallies lines 518-527 are written to leave.
EventOfSegment(realignResult, contigLen) ==
    [SVEvent_new(contigLen, "rearrangement") EXCEPT
        !.segmentResults = <<realignResult>>,
        !.queryCoverage =
            [p \in DOMAIN @ |->
                IF realignResult.qstart <= p /\ p < realignResult.qend THEN 1 ELSE 0],
        !.qlen = realignResult.qend - realignResult.qstart,
        !.nmatch = realignResult.nmatch,
        !.in_target = realignResult.in_target]

CallerStart ==
    /\ caller \in { ContigCaller_init(ra, [seqLen |-> ContigLen]) : ra \in Realignments }
    /\ ccCall = None
    /\ ccRet = None

CallerIdle == caller = None /\ ccCall = None /\ ccRet = None

Finish(op, args, o) ==
    /\ ccCall' = Some([op |-> op, args |-> args])
    /\ ccRet' = Some([exc |-> o.exc, line |-> o.line, val |-> o.val.ret])
    /\ caller' = o.val.self
    /\ UNCHANGED <<abVars, wrVars, bpVars, fmVars, tmVars>>

\* caller.call_svs() on the fresh caller
CallSvs ==
    /\ ccCall = None
    /\ Finish("call_svs", <<>>, call_svs(caller))

\* caller.check_svs() with the results stored as clipped segments (line 863)
CheckSvs ==
    /\ ccCall = None
    /\ caller.realignment.has_results
    /\ Finish("check_svs", <<>>,
              check_svs([caller EXCEPT !.clippedQs = caller.realignment.results]))

\* caller.iter_gaps(gaps, realignResult, iterIdx) on clipped segment number
\* iterIdx; for a later segment the current event is None or the event of
\* the first segment.
IterGaps ==
    /\ ccCall = None
    /\ \E gaps \in GapLists, iterIdx \in 0..(Len(caller.realignment.results) - 1),
          withEvent \in BOOLEAN :
          LET rs == caller.realignment.results
              ev == IF withEvent /\ iterIdx > 0
                    THEN Some(EventOfSegment(rs[1], caller.contig.seqLen))
                    ELSE None
              c0 == [caller EXCEPT !.clippedQs = rs, !.svEvent = ev]
          IN  Finish("iter_gaps", <<gaps, rs[iterIdx + 1], iterIdx, ev>>,
                     iter_gaps(c0, gaps, rs[iterIdx + 1], iterIdx))

\* SVEvent(realignResult, self.contig, svType) on one of the results; ret is
\* None or Some(the object constructed).
ConstructEvent ==
    /\ ccCall = None
    /\ \E k \in 1..Len(caller.realignment.results), svType \in {"rearrangement", "indel"} :
          LET realignResult == caller.realignment.results[k]
              o == SVEvent_init(realignResult, caller.contig.seqLen, svType)
          IN  Finish("SVEvent", <<realignResult, svType>>,
                     [exc |-> o.exc, line |-> o.line,
                      val |-> [ret |-> o.val, self |-> caller]])

\* event.add(realignResult) of the second result on the event of the first;
\* ret is the event as the call leaves it.
AddToEvent ==
    /\ ccCall = None
    /\ Len(caller.realignment.results) >= 2
    /\ LET rs == caller.realignment.results
           o == SVEvent_add(EventOfSegment(rs[1], caller.contig.seqLen), rs[2])
       IN  Finish("add", <<rs[1], rs[2]>>,
                  [exc |-> o.exc, line |-> o.line,
                   val |-> [ret |-> o.val, self |-> caller]])

(*------------------------- TargetManager (processor/target.py) ---------*)
\* The interpreters the sources can run under.  TargetManager is declared
\* without a base class (line 371): under Python 2 it is a classic class, on
\* whose instances an assignment binds the instance attribute and never
\* calls a property setter; under Python 3 the properties of lines 404-432
\* are in force.
Pythons == {2, 3}

\* lines 404-432, as the class body leaves its names: chrom is a property
\* whose setter reads self.__chrom (line 431); the second setter, decorated
\* @end.setter, is named start (line 419), so start is a property whose
\* setter reads self.__end (line 420) and end keeps no setter.  None of the
\* private names is assigned before its first read.
property_set(obj, name, value) ==
    CASE name = "chrom" ->
             IF ~HasAttr(obj, "_TargetManager__chrom")
             THEN Raise("AttributeError", 431, obj)
             ELSE Return(IF obj["_TargetManager__chrom"] = None
                         THEN [obj EXCEPT !["_TargetManager__chrom"] = value]
                         ELSE obj)
      [] name = "start" ->
             IF ~HasAttr(obj, "_TargetManager__end")
             THEN Raise("AttributeError", 420, obj)
             ELSE Return(IF obj["_TargetManager__end"] = None
                         THEN [obj EXCEPT !["_TargetManager__end"] = value]
                         ELSE IF Val(value) < Val(obj["_TargetManager__end"])
                         THEN [obj EXCEPT !["_TargetManager__end"] = value]
                         ELSE obj)
      [] OTHER -> Raise("AttributeError", 0, obj)

\* self.<name> = value at the given line, under interpreter py.  obj is the
\* instance's attribute dictionary.
set_attr(py, obj, name, value, line) ==
    IF py = 2
    THEN Return([n \in (DOMAIN obj) \cup {name} |-> IF n = name THEN value ELSE obj[n]])
    ELSE LET o == property_set(obj, name, value)
         IN  IF Raised(o) /\ o.line = 0 THEN Raise(o.exc, line, obj) ELSE o

\* lines 392-394 of __init__: self.chrom = None; self.start = None;
\* self.end = None, stopping at the first that raises.
TargetManager_init(py) ==
    LET empty == [n \in {} |-> None]
        c == set_attr(py, empty, "chrom", None, 392)
    IN  IF Raised(c) THEN c
        ELSE LET st == set_attr(py, c.val, "start", None, 393)
             IN  IF Raised(st) THEN st
                 ELSE set_attr(py, st.val, "end", None, 394)

\* line 465: self.chrom, self.start, self.end = values[0], int(values[1]),
\* int(values[2]) for one interval.
setup_assign(py, obj, values) ==
    LET c == set_attr(py, obj, "chrom", Some(values[1]), 465)
    IN  IF Raised(c) THEN c
        ELSE LET st == set_attr(py, c.val, "start", Some(values[2]), 465)
             IN  IF Raised(st) THEN st
                 ELSE set_attr(py, st.val, "end", Some(values[3]), 465)

\* Most intervals of one target.
MaxIntervals == 3

\* Intervals (chrom, start, end) of the input bed file.
Intervals ==
    { <<c, r[1], r[2]>> : c \in {"1", "2"},
                          r \in { <<100, 200>>, <<150, 400>>, <<300, 350>> } }
IntervalLists == UNION { [1..n -> Intervals] : n \in 1..MaxIntervals }

TargetStart ==
    target \in { Some([py |-> py, intervals |-> l, pc |-> "new", i |-> 0,
                       obj |-> [n \in {} |-> None], exc |-> "", line |-> 0]) :
                   py \in Pythons, l \in IntervalLists }

TargetIdle == target = None

\* TargetManager(name, params) up to the call of setup (lines 389-401).
ConstructTarget ==
    /\ target # None
    /\ Val(target).pc = "new"
    /\ LET t == Val(target)
           o == TargetManager_init(t.py)
       IN  target' = Some([t EXCEPT !.obj = o.val, !.exc = o.exc, !.line = o.line,
                                    !.pc = IF Raised(o) THEN "raised" ELSE "setup"])
    /\ UNCHANGED <<abVars, wrVars, bpVars, ccVars, fmVars>>

\* One pass of the loop of setup over the intervals (lines 464-465); after
\* the last one the location of the target is defined.
SetupInterval ==
    /\ target # None
    /\ Val(target).pc = "setup"
    /\ LET t == Val(target)
           o == setup_assign(t.py, t.obj, t.intervals[t.i + 1])
       IN  target' = Some([t EXCEPT !.obj = o.val, !.exc = o.exc, !.line = o.line,
                                    !.i = @ + 1,
                                    !.pc = IF Raised(o) THEN "raised"
                                           ELSE IF t.i + 1 = Len(t.intervals) THEN "defined"
                                           ELSE "setup"])
    /\ UNCHANGED <<abVars, wrVars, bpVars, ccVars, fmVars>>

TargetNext == ConstructTarget \/ SetupInterval

InitAddBr ==
    AddBrStart /\ WhichRearrIdle /\ BrkptsIdle /\ CallerIdle /\ FormatIdle /\ TargetIdle
SpecAddBr == InitAddBr /\ [][CheckAddBr]_vars

\* which_rearr on its arguments.
InitWhichRearr ==
    WhichRearrStart /\ AddBrIdle /\ BrkptsIdle /\ CallerIdle /\ FormatIdle /\ TargetIdle
SpecWhichRearr == InitWhichRearr /\ [][WhichRearr]_vars

\* An event's SVBreakpoints object under the loop of
\* format_rearrangement_values, then the event's classification.
InitBrkpts ==
    BrkptsStart /\ AddBrIdle /\ WhichRearrIdle /\ CallerIdle /\ FormatIdle /\ TargetIdle
SpecBrkpts == InitBrkpts /\ [][BrkptsNext]_vars

Init ==
    CallerStart /\ AddBrIdle /\ WhichRearrIdle /\ BrkptsIdle /\ FormatIdle /\ TargetIdle
Next == CallSvs \/ CheckSvs \/ IterGaps \/ ConstructEvent \/ AddToEvent
Spec == Init /\ [][Next]_vars

InitFormat ==
    FormatStart /\ AddBrIdle /\ WhichRearrIdle /\ BrkptsIdle /\ CallerIdle /\ TargetIdle
SpecFormat == InitFormat /\ [][FormatOutput]_vars

\* A TargetManager constructed from the intervals of its target.
InitTarget ==
    TargetStart /\ AddBrIdle /\ WhichRearrIdle /\ BrkptsIdle /\ CallerIdle /\ FormatIdle
SpecTarget == InitTarget /\ [][TargetNext]_vars

(*------------------------- C4, C5 ----------------------------------------*)
WrT1 == wrCall.tcoords[1]
WrT2 == wrCall.tcoords[2]
WrContained ==
    \/ (WrT2[1] <= WrT1[1] /\ WrT1[2] <= WrT2[2])
    \/ (WrT1[1] <= WrT2[1] /\ WrT2[2] <= WrT1[2])
WrSameStrand == wrCall.strands[1] = wrCall.strands[2]
WrTargetGap == wrCall.brkpts[2] - wrCall.brkpts[1]
WrQueryGap == wrCall.qcoords[2][1] - wrCall.qcoords[1][2]
WrVals == Val(wrRet)

\* C4: for reference ranges that do not contain one another, which_rearr
\* gives inversion when the strands differ; otherwise tandem_dup when
\* targetGap < 0, else indel 'D'+targetGap when targetGap > queryGap, else
\* indel 'I'+queryGap (the boundary targetGap = queryGap included).
C4_WhichRearrClassifies ==
    (wrRet # None /\ ~WrContained) =>
        /\ WrVals.hit
        /\ ~WrSameStrand =>
              (WrVals.svType = "rearrangement" /\ WrVals.svSubType = Some("inversion")
               /\ WrVals.indelSize = None)
        /\ (WrSameStrand /\ WrTargetGap < 0) =>
              (WrVals.svType = "rearrangement" /\ WrVals.svSubType = Some("tandem_dup")
               /\ WrVals.indelSize = None)
        /\ (WrSameStrand /\ WrTargetGap >= 0 /\ WrTargetGap > WrQueryGap) =>
              (WrVals.svType = "indel" /\ WrVals.svSubType = None
               /\ WrVals.indelSize = Some(<<"D", WrTargetGap>>))
        /\ (WrSameStrand /\ WrTargetGap >= 0 /\ WrTargetGap <= WrQueryGap) =>
              (WrVals.svType = "indel" /\ WrVals.svSubType = None
               /\ WrVals.indelSize = Some(<<"I", WrQueryGap>>))
        /\ (WrSameStrand /\ WrT1 = <<100, 200>> /\ WrT2 = <<150, 250>>
            /\ wrCall.brkpts = <<200, 150>>) => WrVals.svSubType = Some("tandem_dup")
        /\ (WrSameStrand /\ WrTargetGap = 40 /\ WrQueryGap = 10) =>
              WrVals.indelSize = Some(<<"D", 40>>)
        /\ (WrSameStrand /\ WrTargetGap = 5 /\ WrQueryGap = 20) =>
              WrVals.indelSize = Some(<<"I", 20>>)

\* A same-strand, non-containing pair on the boundary targetGap = queryGap,
\* classified as an insertion.
C4_Witness ==
    /\ wrRet # None /\ ~WrContained /\ WrSameStrand
    /\ WrTargetGap = WrQueryGap
    /\ WrVals.indelSize = Some(<<"I", WrQueryGap>>)

\* C5: when one reference range contains the other (equal ranges included),
\* which_rearr yields hit = False, no subtype, no indel size, no count and
\* no read-evidence query, whatever the strands and gaps, and the pair adds
\* nothing to the hits define_rearr collects.
C5_ContainedNoSignal ==
    (wrRet # None /\ WrContained) =>
        /\ ~WrVals.hit
        /\ WrVals.svSubType = None
        /\ WrVals.indelSize = None
        /\ WrVals.discReadCount = None
        /\ WrVals.extQuery = None
        /\ rearrHits(<<WrVals>>) = [rearrangement |-> <<>>, indel |-> <<>>]

\* The second range strictly inside the first, strands opposite, call done.
C5_Witness ==
    /\ wrRet # None
    /\ WrT1[1] < WrT2[1] /\ WrT2[2] < WrT1[2]
    /\ ~WrSameStrand
    /\ ~WrVals.hit

(*------------------------- C9, C10 ---------------------------------------*)
\* C9 as stated: in every state of a Breakpoint Model, after any number of
\* update_brkpt_info calls (zero included), diff_chr() is true iff the
\* reference names recorded so far number more than one.
C9_DiffChrIffSeveral ==
    svBrkpts # None =>
        (diff_chr(svBrkpts) <=>
            Cardinality({ blatResSorted[k].chr : k \in 1..bpIdx }) > 1)

\* The loop of lines 178-189 has visited every member of a valid event
\* (two members or more, one of them in-target).
BpAllUpdated ==
    /\ svBrkpts # None
    /\ bpIdx = Len(blatResSorted)
    /\ Len(blatResSorted) >= 2
    /\ \E k \in 1..Len(blatResSorted) : blatResSorted[k].in_target

\* C10: once update_brkpt_info has been applied to all members of a valid
\* event, the 'target' and 'other' genomic breakpoint entries together
\* number at least (members - 1).
C10_BrkptCount ==
    BpAllUpdated =>
        Len(svBrkpts.genomicBrkpts.target) + Len(svBrkpts.genomicBrkpts.other)
            >= Len(blatResSorted) - 1

\* A three-member event, all updates applied, its middle member off target.
C10_Witness ==
    /\ BpAllUpdated
    /\ Len(blatResSorted) = 3
    /\ ~blatResSorted[2].in_target
    /\ Len(svBrkpts.genomicBrkpts.other) >= 1

(*------------------------- C21: first and last segment -------------------*)
\* The key a segment's breakpoint is not filed under.
OtherKey(br) == IF br.in_target THEN "other" ELSE "target"

\* C21: in the pass of update_brkpt_info over the members in query order,
\* the call for the first member records its reference end on strand '+'
\* and its reference start on strand '-', and sets the query window to
\* [max(0, qstart - 1), qend]; the call for the last member (of two or
\* more) records its reference start on strand '+' and its reference end on
\* strand '-'; either call appends exactly one (chrom, pos) entry, under
\* 'target' for an in-target member and under 'other' otherwise.
C21_FirstLastBrkpt ==
    [][ bpIdx' = bpIdx + 1 =>
          LET br == blatResSorted[bpIdx + 1]
              isFirst == bpIdx = 0
              isLast == bpIdx > 0 /\ bpIdx = Len(blatResSorted) - 1
              pos == IF isFirst
                     THEN (IF br.strand = "+" THEN br.tend ELSE br.tstart)
                     ELSE (IF br.strand = "+" THEN br.tstart ELSE br.tend)
              key == IF br.in_target THEN "target" ELSE "other"
          IN  /\ (isFirst \/ isLast) =>
                    /\ svBrkpts'.r = Append(svBrkpts.r, pos)
                    /\ svBrkpts'.genomicBrkpts[key] =
                           Append(svBrkpts.genomicBrkpts[key], <<Chrom(br.chr), pos>>)
                    /\ svBrkpts'.genomicBrkpts[OtherKey(br)] =
                           svBrkpts.genomicBrkpts[OtherKey(br)]
              /\ isFirst =>
                    svBrkpts'.q[1] = <<Max(0, br.qstart - 1), br.qend>> ]_vars

\* Every member of a three-member event has been visited, the first on
\* strand '-' and off target, the last on strand '+' and in target.
C21_Witness ==
    /\ svBrkpts # None
    /\ Len(blatResSorted) = 3
    /\ bpIdx = 3
    /\ blatResSorted[1].strand = "-" /\ ~blatResSorted[1].in_target
    /\ blatResSorted[3].strand = "+" /\ blatResSorted[3].in_target
    /\ svBrkpts.genomicBrkpts.other[1] = <<Chrom(blatResSorted[1].chr), blatResSorted[1].tstart>>

(*------------------------- C22: middle segment ---------------------------*)
\* C22: the call of update_brkpt_info for a member that is neither first
\* nor last appends exactly one genomic breakpoint entry, (chrom, refStart,
\* refEnd) on strand '+' and (chrom, refEnd, refStart) on strand '-', and
\* exactly two query-junction entries, one at qstart and one at qend.
C22_MiddleBrkpt ==
    [][ (bpIdx' = bpIdx + 1 /\ bpIdx > 0 /\ bpIdx < Len(blatResSorted) - 1) =>
          LET br == blatResSorted[bpIdx + 1]
              key == IF br.in_target THEN "target" ELSE "other"
              entry == IF br.strand = "+"
                       THEN <<Chrom(br.chr), br.tstart, br.tend>>
                       ELSE <<Chrom(br.chr), br.tend, br.tstart>>
              n == Len(svBrkpts.q[2])
          IN  /\ svBrkpts'.genomicBrkpts[key] =
                     Append(svBrkpts.genomicBrkpts[key], entry)
              /\ svBrkpts'.genomicBrkpts[OtherKey(br)] =
                     svBrkpts.genomicBrkpts[OtherKey(br)]
              /\ Len(svBrkpts'.q[2]) = n + 2
              /\ svBrkpts'.q[2][n + 1][1] = br.qstart
              /\ svBrkpts'.q[2][n + 2][1] = br.qend ]_vars

(*------------------------- C1, C3: the caller ----------------------------*)
CcOp == IF ccCall = None THEN "" ELSE Val(ccCall).op
CcArgs == Val(ccCall).args

\* C1: check_svs completes by returning; it returns True only with an event
\* of at least two member segments whose in_target flag is set, and when it
\* returns False it leaves svEvent None.
C1_ValidityGate ==
    CcOp = "check_svs" =>
        /\ ~Raised(Val(ccRet))
        /\ (Val(ccRet).val = TRUE) =>
               /\ caller.svEvent # None
               /\ Len(Val(caller.svEvent).segmentResults) >= 2
               /\ Val(caller.svEvent).in_target
        /\ (Val(ccRet).val = FALSE) => caller.svEvent = None

\* The segment of the iter_gaps call lies fully inside gap.
InsideGap(realignResult, gap) ==
    gap[1] <= realignResult.qstart /\ realignResult.qend <= gap[2]

\* C3: iter_gaps on a segment that is not the first one and lies fully inside
\* a gap of the list, with a current event: the call returns, the segment is
\* a member of the event afterwards, and the gap is replaced in the returned
\* list by its residual sub-gaps.
C3_InsideGapAccepted ==
    ( /\ CcOp = "iter_gaps"
      /\ CcArgs[3] # 0
      /\ CcArgs[4] # None
      /\ \E k \in 1..Len(CcArgs[1]) : InsideGap(CcArgs[2], CcArgs[1][k]) )
    => /\ ~Raised(Val(ccRet))
       /\ caller.svEvent # None
       /\ CcArgs[2] \in ToSet(Val(caller.svEvent).segmentResults)
       /\ \A k \in 1..Len(CcArgs[1]) :
             InsideGap(CcArgs[2], CcArgs[1][k]) =>
                 /\ CcArgs[1][k] \notin ToSet(Val(ccRet).val)
                 /\ ToSet(ngapOf(CcArgs[2], CcArgs[1][k])) \subseteq ToSet(Val(ccRet).val)

(*------------------------- C6, C7, C8: classification --------------------*)
ClsOp == IF clsCall = None THEN "" ELSE Val(clsCall).op
\* The hits of the consecutive pairs of the classified event, by kind.
DrHits ==
    rearrHits([i \in 1..(Len(blatResSorted) - 1) |->
                   pairVals(FmtEvent, Val(clsCall).varReads, i)])
DrRet == Val(Val(clsRet).val)

\* C6: with exactly one rearrangement subtype among the pairs, define_rearr
\* returns that subtype and that pair's discordant count; with more than
\* one, it returns subtype None and every extra subtype label and every
\* indel size label is in rearrDesc.
C6_AggregateRule ==
    ClsOp = "define_rearr" =>
        /\ Len(DrHits.rearrangement) = 1 =>
               /\ ~Raised(Val(clsRet))
               /\ DrRet.svSubType = DrHits.rearrangement[1].svSubType
               /\ DrRet.rs = Val(DrHits.rearrangement[1].discReadCount)
        /\ Len(DrHits.rearrangement) > 1 =>
               /\ ~Raised(Val(clsRet))
               /\ DrRet.svSubType = None
               /\ \A k \in 2..Len(DrHits.rearrangement) :
                      DrHits.rearrangement[k].svSubType \in ToSet(Val(DrRet.rearrDesc))
               /\ \A k \in 1..Len(DrHits.indel) :
                      Val(DrHits.indel[k].indelSize) \in ToSet(Val(DrRet.rearrDesc))

\* C7: define_rearr never fails when no pair yields a rearrangement subtype:
\* it returns ('rearrangement', None, the other-read-count answer) and the
\* query is seeded with the full breakpoint list; with exactly one such pair
\* the count is the pair's own and no other-read-count query replaces it.
C7_FallbackNeverFails ==
    ClsOp = "define_rearr" =>
        /\ Len(DrHits.rearrangement) = 0 =>
               /\ ~Raised(Val(clsRet))
               /\ DrRet.svType = "rearrangement"
               /\ DrRet.svSubType = None
               /\ DrRet.rs = Val(clsCall).varReads.other
               /\ DrRet.otherQuery = Some(<<"check_other_readcounts", svBrkpts.r>>)
        /\ Len(DrHits.rearrangement) = 1 =>
               /\ ~Raised(Val(clsRet))
               /\ DrRet.rs = Val(DrHits.rearrangement[1].discReadCount)
               /\ DrRet.otherQuery = None

\* The number of the first member whose in_target differs from the first
\* member's (0: none).
FlipAt(rs) ==
    LET ks == { k \in 2..Len(rs) : rs[k].in_target # rs[1].in_target }
    IN  IF ks = {} THEN 0 ELSE CHOOSE k \in ks : \A j \in ks : k <= j

\* C8: for a cross-chromosome event whose members' in_target status flips,
\* the scan of get_disc_read_count selects the breakpoint of the in-target
\* segment adjacent to the first flip: that segment's reference start when
\* the flip is into the target, the reference end of the segment just before
\* the flip when it is out of the target.
C8_TargetBrkptAtFlip ==
    (ClsOp = "get_disc_read_count" /\ FlipAt(blatResSorted) # 0) =>
        LET k == FlipAt(blatResSorted)
        IN  targetBrkptScan(scanStart, blatResSorted) =
                Some(IF blatResSorted[k].in_target
                     THEN blatResSorted[k].tstart
                     ELSE blatResSorted[k - 1].tend)

(*------------------------- C23: the breakpoints of a pair -----------------*)
\* The breakpoint of a segment on the side of the next segment, and on the
\* side of the previous one.
FacingNext(br) == IF br.strand = "+" THEN br.tend ELSE br.tstart
FacingPrev(br) == IF br.strand = "+" THEN br.tstart ELSE br.tend

\* The breakpoints define_rearr hands to which_rearr for every consecutive
\* pair are those of the pair's own junction.
PairJunctions ==
    \A i \in 1..(Len(blatResSorted) - 1) :
        SubSeq(svBrkpts.r, i, i + 1) =
            <<FacingNext(blatResSorted[i]), FacingPrev(blatResSorted[i + 1])>>

\* C23: define_rearr on a same-chromosome event of three members or more
\* completes, and classifies every consecutive pair (i-1, i) with the
\* breakpoint of segment i-1 on the side facing i and the breakpoint of
\* segment i on the side facing i-1.
C23_PairJunctions ==
    (ClsOp = "define_rearr" /\ Len(blatResSorted) >= 3) =>
        /\ ~Raised(Val(clsRet))
        /\ PairJunctions

(*------------------------- C24: read-support counts ----------------------*)
\* The least read count over the positions lo..hi.
MinCountOver(readCounts, lo, hi) ==
    CHOOSE c \in { readCounts[p] : p \in lo..hi } :
        \A p \in lo..hi : c <= readCounts[p]

\* C24: set_counts completes and leaves, for every query junction (pos,
\* leftFlank, rightFlank) in order, one 'near' count, the least read count
\* over [pos - min(leftFlank, 5), pos + min(rightFlank, 5)], one 'direct'
\* count, the least over [pos - 1, pos + 1], one 'breakpoint' count, the
\* count at pos, and one kmer count at pos; the split-read counts reported
\* are the 'breakpoint' counts.
C24_SetCounts ==
    ClsOp = "set_counts" =>
        LET junctions == svBrkpts.q[2]
            contig == Val(clsCall).contig
        IN  /\ ~Raised(Val(clsRet))
            /\ Len(svBrkpts.counts.n) = Len(junctions)
            /\ Len(svBrkpts.counts.d) = Len(junctions)
            /\ Len(svBrkpts.counts.b) = Len(junctions)
            /\ Len(svBrkpts.kmers) = Len(junctions)
            /\ get_splitread_count(svBrkpts) = svBrkpts.counts.b
            /\ \A k \in 1..Len(junctions) :
                  LET pos == junctions[k][1]
                      leftFlank == junctions[k][2]
                      rightFlank == Val(junctions[k][3])
                  IN  /\ svBrkpts.counts.n[k] =
                             MinCountOver(contig.readCounts,
                                          pos - Min(leftFlank, MaxFlank),
                                          pos + Min(rightFlank, MaxFlank))
                      /\ svBrkpts.counts.d[k] =
                             MinCountOver(contig.readCounts, pos - 1, pos + 1)
                      /\ svBrkpts.counts.b[k] = contig.readCounts[pos]
                      /\ svBrkpts.kmers[k] = contig.kmerLocs[pos]

(*------------------------- C28: the query junctions ----------------------*)
\* C28: once update_brkpt_info has visited all n >= 2 members of a valid
\* event in query-start order, the junction list has 2 * (n - 1) entries, each with
\* a left flank and a right flank that are set and not negative, so that
\* the window [pos - min(left, 5), pos + min(right, 5)] holds pos.
C28_JunctionFlanks ==
    BpAllUpdated =>
        /\ Len(svBrkpts.q[2]) = 2 * (Len(blatResSorted) - 1)
        /\ \A k \in 1..Len(svBrkpts.q[2]) :
              LET qb == svBrkpts.q[2][k]
              IN  /\ qb[2] >= 0
                  /\ qb[3] # None
                  /\ Val(qb[3]) >= 0
                  /\ qb[1] - Min(qb[2], MaxFlank) <= qb[1]
                  /\ qb[1] <= qb[1] + Min(Val(qb[3]), MaxFlank)

(*------------------------- C25: maxMeanCoverage --------------------------*)
\* C25: get_max_meanCoverage, whose value set_rearr_values and
\* set_trl_values store as maxMeanCoverage, completes with a value, the
\* greatest mean region coverage of the event's members as an integer.
C25_MaxMeanCoverage ==
    ClsOp = "get_max_meanCoverage" =>
        /\ ~Raised(Val(clsRet))
        /\ Val(clsRet).val # None

(*------------------------- C11: queryCoverage ----------------------------*)
\* The number of members whose half-open query range contains position p.
CoverageOf(members, p) ==
    Cardinality({ k \in 1..Len(members) :
                    members[k].qstart <= p /\ p < members[k].qend })

CoverageCounts(event, contigLen) ==
    /\ DOMAIN event.queryCoverage = 0..(contigLen - 1)
    /\ \A p \in 0..(contigLen - 1) :
          event.queryCoverage[p] = CoverageOf(event.segmentResults, p)

\* C11: constructing an event, and adding a segment to one, completes, and
\* afterwards queryCoverage is as long as the contig and counts at every
\* position the members whose query range [qstart, qend) contains it.
C11_QueryCoverage ==
    /\ CcOp = "SVEvent" =>
           /\ ~Raised(Val(ccRet))
           /\ CoverageCounts(Val(Val(ccRet).val), caller.contig.seqLen)
    /\ CcOp = "add" =>
           /\ ~Raised(Val(ccRet))
           /\ CoverageCounts(Val(ccRet).val, caller.contig.seqLen)

(*------------------------- C14: output round trip ------------------------*)
FmSelf == Val(fmCall)
FmHeaderFields == Split(Val(fmRet)[1], TAB)
FmValueFields == Split(Val(fmRet)[2], TAB)
FmDiagnostics ==
    filterOutputValues(FmSelf.filterValues, FmSelf.svType, FmSelf.svSubtype)

\* C14: the header line and the value line have the same number of
\* tab-separated fields, 19, the header being the fixed names from
\* Target_Name to Filter_values; each of the first 18 value fields is the
\* string form of the record's field, a list field splitting on commas into
\* the string forms of its elements; the last field splits on semicolons
\* into one key=value piece for every diagnostic of the record's type.
C14_RoundTrip ==
    fmRet # None =>
        /\ Len(FmHeaderFields) = 19
        /\ Len(FmValueFields) = 19
        /\ FmHeaderFields = [i \in 1..Len(headerStr) |-> <<headerStr[i]>>]
        /\ headerStr[1] = "Target_Name" /\ headerStr[19] = "Filter_values"
        /\ \A i \in 1..18 :
              LET item == outItem(FmSelf, outFields[i])
              IN  IF item.t = "list"
                  THEN Split(FmValueFields[i], ",") =
                           [k \in 1..Len(item.items) |-> Str(item.items[k])]
                  ELSE FmValueFields[i] = Str(item)
        /\ LET pieces == Split(FmValueFields[19], ";")
           IN  /\ Len(pieces) = Len(FmDiagnostics)
               /\ ToSet(pieces) =
                      { <<FmDiagnostics[k][1]>> \o <<"=">> \o Str(FmDiagnostics[k][2]) :
                          k \in 1..Len(FmDiagnostics) }

\* A translocation record with a two-element list field and a breakpoint
\* string holding a comma has been formatted.
C14_Witness ==
    /\ fmRet # None
    /\ FmSelf.svSubtype = PyStr(<<"trl">>)
    /\ FmSelf.strands = PyList(<<PyStr(<<"+">>), PyStr(<<"-">>)>>)
    /\ FmSelf.description = PyList(<<PyNone, PyStr(<<"5", "M">>)>>)
    /\ "," \in ToSet(FmSelf.fullBreakpointStr.chars)

(*------------------------- C16: sequence complexity ----------------------*)
\* The member with the fewest matched bases (the first such in query order).
FewestMatched(members) ==
    members[CHOOSE k \in 1..Len(members) :
                \A j \in 1..Len(members) :
                    members[k].nmatch < members[j].nmatch
                    \/ (members[k].nmatch = members[j].nmatch /\ k <= j)]

\* The distinct 3-mers of seq, case ignored.
DistinctTrimers(seq) ==
    { <<Upper(seq[i]), Upper(seq[i + 1]), Upper(seq[i + 2])>> : i \in 1..(Len(seq) - 2) }

\* C16: get_seq_complexity returns, for the aligned query sub-sequence of the
\* member with the fewest matched bases, 100 times the number of distinct
\* 3-mers over the length less 2 (here in 1/10000ths, rounded), a value
\* above 0 and at most 100 when the sub-sequence has 3 bases or more.
C16_SeqComplexity ==
    ClsOp = "get_seq_complexity" =>
        LET m == FewestMatched(blatResSorted)
            sub == PySlice(Val(clsCall).contigSeq, m.qstart, m.qend)
        IN  /\ ~Raised(Val(clsRet))
            /\ Len(sub) >= 3 =>
                   /\ Val(Val(clsRet).val) =
                          RoundHalfAway(Cardinality(DistinctTrimers(sub)) * 1000000,
                                        Len(sub) - 2)
                   /\ Val(Val(clsRet).val) > 0
                   /\ Val(Val(clsRet).val) <= 1000000

(*------------------------- C15: the two paths of call_svs ---------------*)
\* C15: call_svs on a non-empty result list whose first segment encodes an
\* indel completes, leaving an event of type 'indel' whose only member is
\* that first segment and no segment stored for gap iteration; when the
\* first segment encodes no indel, an event that call_svs returns is of type
\* 'rearrangement'.
C15_IndelPathExclusive ==
    (CcOp = "call_svs" /\ caller.realignment.results # <<>>) =>
        IF caller.realignment.first_is_indel
        THEN /\ ~Raised(Val(ccRet))
             /\ caller.svEvent # None
             /\ Val(caller.svEvent).svType = "indel"
             /\ Val(caller.svEvent).segmentResults = <<caller.realignment.results[1]>>
             /\ caller.clippedQs = <<>>
        ELSE /\ ~Raised(Val(ccRet))
             /\ caller.svEvent # None => Val(caller.svEvent).svType = "rearrangement"

(*------------------------- C17: the hit test of iter_gaps ----------------*)
StartInGap(seg, gap) == gap[1] <= seg.qstart /\ seg.qstart <= gap[2]
EndInGap(seg, gap) == gap[1] <= seg.qend /\ seg.qend <= gap[2]
StartNearEdge(seg, gap) == seg.qstart <= gap[1] /\ gap[1] - seg.qstart < GapEdgeDist
EndNearEdge(seg, gap) == seg.qend >= gap[2] /\ seg.qend - gap[2] < GapEdgeDist

\* What an iter_gaps call shows of its hit test, given the numbers of the
\* gaps the test is said to accept.  The body of a hit (line 903 on) calls
\* the event constructor for the first segment (line 912, failing at 521)
\* and check_add_br for a later one (line 915); with no hit the call goes on
\* to line 926.  The list built holds, unchanged and in order, the gaps
\* before the first hit, or every gap when there is none.
IterGapsShows(hits) ==
    IF hits = {}
    THEN /\ Val(ccRet).val = CcArgs[1]
         /\ Val(ccRet).line \in {551, 926}
    ELSE LET k == CHOOSE i \in hits : \A j \in hits : i <= j
         IN  /\ Val(ccRet).val = SubSeq(CcArgs[1], 1, k - 1)
             /\ Val(ccRet).line \in {521, 915}

C18_ResidualsLong ==
    CcOp = "iter_gaps" =>
        \A k \in 1..Len(CcArgs[1]) :
            hitsGap(CcArgs[2], CcArgs[1][k]) =>
                \A j \in 1..Len(ngapOf(CcArgs[2], CcArgs[1][k])) :
                    LET residual == ngapOf(CcArgs[2], CcArgs[1][k])[j]
                    IN  residual[2] - residual[1] > MinGapLen

(*------------------------- C19: duplicate-coordinate fold ----------------*)
\* The segment br duplicates the segment prev: equal query coordinates,
\* match totals less than 10 apart, prev outside the target and br inside.
FoldsInto(br, prev) ==
    /\ br.qstart = prev.qstart /\ br.qend = prev.qend
    /\ Abs(prev.nmatch - br.nmatch) < NmatchTolerance
    /\ ~prev.in_target /\ br.in_target

\* C19: an iter_gaps call whose segment hits no gap, made with an event,
\* returns the gap list unchanged; the segment replaces the most recently
\* accepted one, and the event becomes in-target, only if it duplicates it;
\* otherwise the event is left as it was.
C19_DuplicateFold ==
    ( /\ CcOp = "iter_gaps"
      /\ CcArgs[4] # None
      /\ \A k \in 1..Len(CcArgs[1]) : ~hitsGap(CcArgs[2], CcArgs[1][k]) )
    => LET before == Val(CcArgs[4])
           n == Len(before.segmentResults)
       IN  /\ ~Raised(Val(ccRet))
           /\ Val(ccRet).val = CcArgs[1]
           /\ caller.svEvent # None
           /\ IF FoldsInto(CcArgs[2], before.segmentResults[n])
              THEN /\ Val(caller.svEvent).segmentResults =
                          [before.segmentResults EXCEPT ![n] = CcArgs[2]]
                   /\ Val(caller.svEvent).in_target
              ELSE Val(caller.svEvent) = before

(*------------------------- C20: the event check_svs keeps ----------------*)
\* The query length the members of an event add up to.
RECURSIVE QlenOf(_)
QlenOf(members) ==
    IF members = <<>> THEN 0
    ELSE (Head(members).qend - Head(members).qstart) + QlenOf(Tail(members))

\* C20: check_svs over two or more clipped segments iterates them all and
\* completes; when it returns True the event kept holds the first clipped
\* segment (accepted against the full-span gap) and only clipped segments,
\* each once at most, and its qlen is the query length its members add up
\* to, the greatest reached in the iteration.
C20_KeepsLongestEvent ==
    (CcOp = "check_svs" /\ Len(caller.clippedQs) >= 2) =>
        /\ ~Raised(Val(ccRet))
        /\ Val(ccRet).val = TRUE =>
               LET kept == Val(caller.svEvent)
               IN  /\ kept.segmentResults # <<>>
                   /\ kept.segmentResults[1] = caller.clippedQs[1]
                   /\ ToSet(kept.segmentResults) \subseteq ToSet(caller.clippedQs)
                   /\ Len(kept.segmentResults) <= Len(caller.clippedQs)
                   /\ kept.qlen = QlenOf(kept.segmentResults)

(*------------------------- C26: the location of a target -----------------*)
TmStarts == { Val(target).intervals[k][2] : k \in 1..Len(Val(target).intervals) }
TmEnds == { Val(target).intervals[k][3] : k \in 1..Len(Val(target).intervals) }

\* C26: once setup has assigned chrom, start and end for every interval of
\* the target, start is the least interval start, end the greatest
\* interval end and chrom the chromosome of the first interval.
C26_TargetLocation ==
    (target # None /\ Val(target).pc = "defined") =>
        LET obj == Val(target).obj
        IN  /\ \A x \in TmStarts : Val(obj.start) <= x
            /\ Val(obj.start) \in TmStarts
            /\ \A x \in TmEnds : Val(obj.end) >= x
            /\ Val(obj.end) \in TmEnds
            /\ obj.chrom = Some(Val(target).intervals[1][1])

(*------------------------- C27: the live gap list ------------------------*)
\* Every gap of the list lies within the query, and no two overlap.
WellFormedGaps(gaps, querySize) ==
    /\ \A k \in 1..Len(gaps) :
          0 <= gaps[k][1] /\ gaps[k][1] <= gaps[k][2] /\ gaps[k][2] <= querySize
    /\ \A j, k \in 1..Len(gaps) :
          j < k => (gaps[j][2] < gaps[k][1] \/ gaps[k][2] < gaps[j][1])

\* Every gap of newGaps lies inside a gap of gaps.
RefinesGaps(newGaps, gaps) ==
    \A k \in 1..Len(newGaps) :
        \E j \in 1..Len(gaps) :
            gaps[j][1] <= newGaps[k][1] /\ newGaps[k][2] <= gaps[j][2]

\* C27: an iter_gaps call on a well-formed gap list and a well-formed
\* segment hands back the next live gap list: gaps within [0, querySize],
\* pairwise disjoint, each a gap of the list before or a part of one.
C27_GapListInvariant ==
    ( /\ CcOp = "iter_gaps"
      /\ WellFormedGaps(CcArgs[1], caller.realignment.qsize) )
    => /\ ~Raised(Val(ccRet))
       /\ WellFormedGaps(Val(ccRet).val, caller.realignment.qsize)
       /\ RefinesGaps(Val(ccRet).val, CcArgs[1])

(*------------------------- C29: the tallies of an event ------------------*)
\* The matched bases the members of an event add up to.
RECURSIVE NmatchOf(_)
NmatchOf(members) ==
    IF members = <<>> THEN 0 ELSE Head(members).nmatch + NmatchOf(Tail(members))

\* qlen, nmatch and in_target of the event agree with its members.
TalliesAgree(event) ==
    /\ event.qlen = QlenOf(event.segmentResults)
    /\ event.nmatch = NmatchOf(event.segmentResults)
    /\ event.in_target <=>
           \E k \in 1..Len(event.segmentResults) : event.segmentResults[k].in_target

\* C29: constructing an event on a segment, and adding a segment to an
\* event, completes and leaves qlen the sum of the members' query spans,
\* nmatch the sum of their matched bases, and in_target true exactly when a
\* member is in-target.
C29_EventTallies ==
    /\ CcOp = "SVEvent" =>
           /\ ~Raised(Val(ccRet))
           /\ TalliesAgree(Val(Val(ccRet).val))
    /\ CcOp = "add" =>
           /\ ~Raised(Val(ccRet))
           /\ TalliesAgree(Val(ccRet).val)

(*------------------------- C30: a segment is added once ------------------*)
\* How often seg occurs in the member list.
Occurrences(seg, members) ==
    Cardinality({ k \in 1..Len(members) : members[k] = seg })

\* The members of an event that may be None.
MembersOf(ev) == IF ev = None THEN <<>> ELSE Val(ev).segmentResults

\* The gaps of the list the segment hits, by the test of line 902.
GapsHit(seg, gaps) ==
    { k \in 1..Len(gaps) :
        \/ StartInGap(seg, gaps[k])
        \/ EndInGap(seg, gaps[k])
        \/ (StartNearEdge(seg, gaps[k]) /\ EndNearEdge(seg, gaps[k])) }

C12_TooFewSegments ==
    /\ (CcOp = "check_svs" /\ Len(caller.clippedQs) < 2) =>
           /\ ~Raised(Val(ccRet))
           /\ Val(ccRet).val = FALSE
           /\ caller.svEvent = None
    /\ ( /\ CcOp = "call_svs"
         /\ Len(caller.realignment.results) < 2
         /\ ~caller.realignment.first_is_indel ) =>
           /\ ~Raised(Val(ccRet))
           /\ Val(ccRet).val = None

\* C13: call_svs, on any list of well-formed segments, ends by returning.
C13_NoErrorState ==
    CcOp = "call_svs" => ~Raised(Val(ccRet))

====
